---- MODULE Spec2Model ----
(***************************************************************************)
(* A model of Auracoil: the region parser that splices reviewer output     *)
(* into AGENTS.md, the context builder that selects the bounded bundle of  *)
(* files, the secret scanner, the review / generate / update commands and  *)
(* the StateManager.                                                       *)
(*                                                                         *)
(* Text is modelled as a sequence of one-character strings.  "n" stands    *)
(* for a newline, "s" for a space, "x" for any other character that is     *)
(* neither whitespace nor part of a marker.  The two sentinel comments     *)
(* '<!-- auracoil:begin -->' and '<!-- auracoil:end -->' are shortened to  *)
(* "<b>" and "<e>": like the real ones they share their first and last     *)
(* character, neither contains the other, neither overlaps itself or the   *)
(* other, and neither contains whitespace at its ends.                     *)
(***************************************************************************)
EXTENDS Integers, Sequences, FiniteSets, TLC

VARIABLES
    \* ---- region parser / apply command
    doc,          \* text of AGENTS.md (file content and in-memory document)
    fileExists,   \* whether AGENTS.md exists on disk
    prev,         \* the document before the last operation
    lastOp,       \* the last operation applied
    arg,          \* the content argument of the last operation
    ret,          \* what the last operation returned (or that it threw)
    \* ---- context builder (buildAnalysisBundle)
    repo,         \* the paths that exist in the repository
    unreadable,   \* the paths of the repository that cannot be read
    cfg,          \* the ContextConfig in force
    bundle,       \* the AnalysisBundle under construction
    currentSize,  \* bytes accepted so far
    currentTokens,\* estimated tokens accepted so far
    bpc,          \* where buildAnalysisBundle is
    plan,         \* the addFile calls still to make in this stage
    attempt,      \* the last addFile call and its result
    \* ---- StateManager
    stateFiles,   \* the content of .auracoil/state.json of each repository
    emptyFindings,\* per process: the array EMPTY_STATE.findings refers to
    pending,      \* per process: the call that awaits its writeFile
    lastLoad,     \* the last load() a caller made, and what it returned
    lastCall,     \* the last StateManager call a caller made
    callCount,    \* the number of StateManager calls made so far
    \* ---- review / generate / update commands
    cmd,          \* the command that runs
    cpc,          \* where the command is
    tree,         \* the paths that exist under cwd
    texts,        \* what the secret patterns find in each file of the tree
    hostDoc,      \* whether cwd/AGENTS.md can be read
    cmdBundle,    \* the bundle the command built
    scanResult,   \* what scanForSecrets returned
    evidence,     \* changedFiles and commitMessages of the review, and how git fared
    oracleCalled, \* whether executeOracle was called
    sent,         \* the files option executeOracle was called with
    oracleOk,     \* whether the External Reviewer returned success
    exitAt,       \* the step that ended the process with exit code 1
    stateFile0,   \* state.json of cwd when the command started
    stateWrites,  \* writes of state.json by the command
    artifactWrites, \* writes of a review artifact by the command
    oracleOutput, \* the output the External Reviewer returned
    artifact,     \* the content of the review artifact
    \* ---- getBundleHash
    hexOrder,     \* the content hashes in the order of their hex strings
    mapA,         \* contentHashes of a bundle, in insertion order
    mapB,         \* contentHashes of another bundle
    hpc,          \* which getBundleHash calls were made
    hashA,        \* getBundleHash of the first bundle
    hashA2,       \* getBundleHash of the first bundle, called again
    hashB,        \* getBundleHash of the other bundle
    \* ---- scanForSecrets called on its own
    scanList,     \* the file list scanForSecrets is called with
    scanTexts,    \* the text of each readable file of the list
    spc,          \* whether scanForSecrets has returned
    scanOut,      \* the SecretScanResult returned
    \* ---- buildReviewPrompt
    promptInput,  \* the ReviewPromptInput buildReviewPrompt is called with
    ppc,          \* whether buildReviewPrompt has returned
    prompt,       \* the prompt returned, as its pieces of text
    \* ---- isDangerousFile called on its own
    dfPathA,      \* a path isDangerousFile is called with
    dfPathB,      \* another path
    dpc,          \* which isDangerousFile calls were made
    dfResultA,    \* isDangerousFile of the first path
    dfResultB     \* isDangerousFile of the other path

regionVars == <<doc, fileExists, prev, lastOp, arg, ret>>
bundleVars == <<repo, unreadable, cfg, bundle, currentSize, currentTokens, bpc, plan, attempt>>
stateVars == <<stateFiles, emptyFindings, pending, lastLoad, lastCall, callCount>>
cmdVars == <<cmd, cpc, tree, texts, hostDoc, cmdBundle, scanResult, evidence, oracleCalled,
             sent, oracleOk, exitAt, stateFile0, stateWrites, artifactWrites,
             oracleOutput, artifact>>
hashVars == <<hexOrder, mapA, mapB, hpc, hashA, hashA2, hashB>>
scanVars == <<scanList, scanTexts, spc, scanOut>>
promptVars == <<promptInput, ppc, prompt>>
dangerVars == <<dfPathA, dfPathB, dpc, dfResultA, dfResultB>>

\* What an action of one component leaves alone: the other components.
notRegionVars == <<bundleVars, stateVars, cmdVars, hashVars, scanVars, promptVars, dangerVars>>
notBundleVars == <<regionVars, stateVars, cmdVars, hashVars, scanVars, promptVars, dangerVars>>
notStateVars == <<regionVars, bundleVars, cmdVars, hashVars, scanVars, promptVars, dangerVars>>
notCmdVars == <<regionVars, bundleVars, hashVars, scanVars, promptVars, dangerVars>>
notHashVars == <<regionVars, bundleVars, stateVars, cmdVars, scanVars, promptVars, dangerVars>>
notScanVars == <<regionVars, bundleVars, stateVars, cmdVars, hashVars, promptVars, dangerVars>>
notPromptVars == <<regionVars, bundleVars, stateVars, cmdVars, hashVars, scanVars, dangerVars>>
notDangerVars == <<regionVars, bundleVars, stateVars, cmdVars, hashVars, scanVars, promptVars>>

vars == <<doc, fileExists, prev, lastOp, arg, ret,
          repo, unreadable, cfg, bundle, currentSize, currentTokens, bpc, plan, attempt,
          stateFiles, emptyFindings, pending, lastLoad, lastCall, callCount,
          cmd, cpc, tree, texts, hostDoc, cmdBundle, scanResult, evidence, oracleCalled,
          sent, oracleOk, exitAt, stateFile0, stateWrites, artifactWrites,
          oracleOutput, artifact,
          hexOrder, mapA, mapB, hpc, hashA, hashA2, hashB,
          scanList, scanTexts, spc, scanOut,
          promptInput, ppc, prompt,
          dfPathA, dfPathB, dpc, dfResultA, dfResultB>>

(***************************************************************************)
(* Bounds of the model.                                                    *)
(***************************************************************************)
MaxDocTokens == 3
MaxContentTokens == 1
MaxDocLen == 12

(***************************************************************************)
(* JavaScript string primitives, computed as the runtime computes them.    *)
(***************************************************************************)
Min(a, b) == IF a < b THEN a ELSE b
Max(a, b) == IF a > b THEN a ELSE b

Whitespace == {"n", "s"}

\* String.prototype.indexOf: 0-based index of the first occurrence, or -1.
IndexOf(s, m) ==
    LET hits == {i \in 0..(Len(s) - Len(m)) : SubSeq(s, i + 1, i + Len(m)) = m}
    IN  IF hits = {} THEN -1 ELSE CHOOSE i \in hits : \A j \in hits : i <= j

Includes(s, m) == IndexOf(s, m) # -1

\* String.prototype.substring(a, b): indices are clamped to [0, length] and
\* swapped when a > b.
Substring(s, a, b) ==
    LET ca == Max(0, Min(a, Len(s)))
        cb == Max(0, Min(b, Len(s)))
    IN  SubSeq(s, Min(ca, cb) + 1, Max(ca, cb))

SubstringFrom(s, a) == Substring(s, a, Len(s))

RECURSIVE TrimEnd(_)
TrimEnd(s) ==
    IF s # <<>> /\ s[Len(s)] \in Whitespace
    THEN TrimEnd(SubSeq(s, 1, Len(s) - 1))
    ELSE s

RECURSIVE TrimStart(_)
TrimStart(s) ==
    IF s # <<>> /\ s[1] \in Whitespace THEN TrimStart(Tail(s)) ELSE s

Trim(s) == TrimStart(TrimEnd(s))

RECURSIVE Flatten(_)
Flatten(ss) == IF ss = <<>> THEN <<>> ELSE Head(ss) \o Flatten(Tail(ss))

\* All sequences over S of length at most n.
SeqsUpTo(S, n) == UNION {[1..k -> S] : k \in 0..n}

(***************************************************************************)
(* Region parser.                                                          *)
(***************************************************************************)
BEGIN_MARKER == <<"<", "b", ">">>
END_MARKER == <<"<", "e", ">">>

\* The placeholder block: BEGIN, newline, a heading line, a blank line, a
\* text line, newline, END.
DEFAULT_REGION ==
    BEGIN_MARKER \o <<"n", "x", "n", "n", "x", "n">> \o END_MARKER

Null == [tag |-> "null", val |-> <<>>]
Threw == [tag |-> "threw", val |-> <<>>]
Str(s) == [tag |-> "str", val |-> s]

\* Mutant: the region is read from the BEGIN marker itself.
extractRegion_fromBegin(d) ==
    LET beginIdx == IndexOf(d, BEGIN_MARKER)
        endIdx == IndexOf(d, END_MARKER)
    IN  IF beginIdx = -1 \/ endIdx = -1
        THEN Null
        ELSE Str(Trim(Substring(d, beginIdx, endIdx)))

\* Mutant: the text between the markers is returned as it is.
extractRegion_untrimmed(d) ==
    LET beginIdx == IndexOf(d, BEGIN_MARKER)
        endIdx == IndexOf(d, END_MARKER)
    IN  IF beginIdx = -1 \/ endIdx = -1
        THEN Null
        ELSE Str(Substring(d, beginIdx + Len(BEGIN_MARKER), endIdx))

extractRegion(d) ==
    LET beginIdx == IndexOf(d, BEGIN_MARKER)
        endIdx == IndexOf(d, END_MARKER)
    IN  IF beginIdx = -1 \/ endIdx = -1
        THEN Null
        ELSE Str(Trim(Substring(d, beginIdx + Len(BEGIN_MARKER), endIdx)))

\* Mutant: the text kept after the region starts behind the END marker.
replaceRegion_dropEnd(d, newContent) ==
    LET beginIdx == IndexOf(d, BEGIN_MARKER)
        endIdx == IndexOf(d, END_MARKER)
        before == Substring(d, 0, beginIdx + Len(BEGIN_MARKER))
        after == SubstringFrom(d, endIdx + Len(END_MARKER))
    IN  IF beginIdx = -1 \/ endIdx = -1
        THEN Threw
        ELSE Str(before \o <<"n">> \o Trim(newContent) \o <<"n">> \o after)

\* Mutant: only a missing BEGIN marker is an error.
replaceRegion_onlyBegin(d, newContent) ==
    LET beginIdx == IndexOf(d, BEGIN_MARKER)
        endIdx == IndexOf(d, END_MARKER)
        before == Substring(d, 0, beginIdx + Len(BEGIN_MARKER))
        after == SubstringFrom(d, endIdx)
    IN  IF beginIdx = -1
        THEN Threw
        ELSE Str(before \o <<"n">> \o Trim(newContent) \o <<"n">> \o after)

replaceRegion(d, newContent) ==
    LET beginIdx == IndexOf(d, BEGIN_MARKER)
        endIdx == IndexOf(d, END_MARKER)
        before == Substring(d, 0, beginIdx + Len(BEGIN_MARKER))
        after == SubstringFrom(d, endIdx)
    IN  IF beginIdx = -1 \/ endIdx = -1
        THEN Threw
        ELSE Str(before \o <<"n">> \o Trim(newContent) \o <<"n">> \o after)

\* Mutant: a region is appended unless the END marker is there.
ensureRegion_unlessEnd(d) ==
    IF Includes(d, END_MARKER)
    THEN d
    ELSE TrimEnd(d) \o <<"n", "n">> \o DEFAULT_REGION \o <<"n">>

ensureRegion(d) ==
    IF Includes(d, BEGIN_MARKER)
    THEN d
    ELSE TrimEnd(d) \o <<"n", "n">> \o DEFAULT_REGION \o <<"n">>

(***************************************************************************)
(* The documents and contents the region operations are applied to.       *)
(***************************************************************************)
DocTokens == {BEGIN_MARKER, END_MARKER, <<"x">>, <<"n">>, <<"<">>}
ContentTokens == {<<"x">>, <<"n", "x", "s">>, END_MARKER}

Docs == {Flatten(t) : t \in SeqsUpTo(DocTokens, MaxDocTokens)}
Contents == {Flatten(t) : t \in SeqsUpTo(ContentTokens, MaxContentTokens)}

NoFile == [exists |-> FALSE, text |-> <<>>]
ReviewFiles == {NoFile} \cup {[exists |-> TRUE, text |-> c] : c \in Contents}

RegionInit ==
    /\ doc \in Docs
    /\ fileExists \in BOOLEAN
    /\ prev = doc
    /\ lastOp = "init"
    /\ arg = <<>>
    /\ ret = Null

ExtractRegionCall ==
    /\ Len(doc) <= MaxDocLen
    /\ ret' = extractRegion(doc)
    /\ lastOp' = "extract"
    /\ prev' = doc
    /\ arg' = <<>>
    /\ UNCHANGED <<doc, fileExists>>
    /\ UNCHANGED notRegionVars

ReplaceRegionCall ==
    \E c \in Contents :
        /\ Len(doc) <= MaxDocLen
        /\ ret' = replaceRegion(doc, c)
        /\ doc' = IF ret'.tag = "str" THEN ret'.val ELSE doc
        /\ lastOp' = "replace"
        /\ prev' = doc
        /\ arg' = c
        /\ UNCHANGED fileExists
        /\ UNCHANGED notRegionVars

\* ensureRegion appends at most once, so it needs no bound on the document.
EnsureRegionCall ==
    /\ ret' = Str(ensureRegion(doc))
    /\ doc' = ret'.val
    /\ lastOp' = "ensure"
    /\ prev' = doc
    /\ arg' = <<>>
    /\ UNCHANGED fileExists
    /\ UNCHANGED notRegionVars

\* replaceRegion(doc, extractRegion(doc)), for a document extractRegion
\* finds a region in.
RoundTripCall ==
    /\ Len(doc) <= MaxDocLen
    /\ extractRegion(doc).tag = "str"
    /\ ret' = replaceRegion(doc, extractRegion(doc).val)
    /\ doc' = IF ret'.tag = "str" THEN ret'.val ELSE doc
    /\ lastOp' = "roundtrip"
    /\ prev' = doc
    /\ arg' = extractRegion(doc).val
    /\ UNCHANGED fileExists
    /\ UNCHANGED notRegionVars

\* applyCommand: read the review, read AGENTS.md, ensureRegion, replaceRegion,
\* write.  A missing file ends the process; a throw of replaceRegion is not
\* caught, so nothing is written.
ApplyCommand ==
    \E review \in ReviewFiles :
        LET ensured == ensureRegion(doc)
            updatedDoc == replaceRegion(ensured, review.text)
        IN  /\ Len(doc) <= MaxDocLen
            /\ lastOp' = "apply"
            /\ prev' = doc
            /\ arg' = review.text
            /\ UNCHANGED fileExists
            /\ UNCHANGED notRegionVars
            /\ IF ~review.exists \/ ~fileExists
               THEN ret' = [tag |-> "exit", val |-> <<>>] /\ doc' = doc
               ELSE /\ ret' = updatedDoc
                    /\ doc' = IF updatedDoc.tag = "str" THEN updatedDoc.val ELSE doc

(***************************************************************************)
(* Paths.  A path is named by its string; Toks gives its text cut into the *)
(* fragments the program's patterns test (directory names, "/", base       *)
(* names, extensions), so that startsWith / endsWith / includes /          *)
(* toLowerCase and the glob patterns are computed on the text.             *)
(***************************************************************************)
Toks(p) ==
    CASE p = "package.json" -> <<"package", ".json">>
      [] p = "requirements.txt" -> <<"requirements", ".txt">>
      [] p = "README.md" -> <<"README", ".md">>
      [] p = "docs/secrets.md" -> <<"docs", "/", "secrets", ".md">>
      [] p = "tsconfig.json" -> <<"tsconfig", ".json">>
      [] p = "src/index.ts" -> <<"src", "/", "index", ".ts">>
      [] p = "lib/index.ts" -> <<"lib", "/", "index", ".ts">>
      [] p = "src/utils/db.ts" -> <<"src", "/", "utils", "/", "db", ".ts">>
      [] p = "id_rsa" -> <<"id_rsa">>
      [] p = ".env.example" -> <<".env", ".example">>
      [] p = "config.sample.json" -> <<"config", ".sample", ".json">>
      [] p = ".env" -> <<".env">>
      [] p = "config/.ENV" -> <<"config", "/", ".ENV">>
      [] p = ".envrc" -> <<".env", "rc">>
      [] p = "server.key" -> <<"server", ".key">>
      [] p = "keys/cert.PEM" -> <<"keys", "/", "cert", ".PEM">>
      [] p = "aws-Credentials.json" -> <<"aws-", "Credentials", ".json">>
      [] p = "keys/id_rsa" -> <<"keys", "/", "id_rsa">>
      [] p = "index.ts" -> <<"index", ".ts">>
      [] p = "secrets/index.ts" -> <<"secrets", "/", "index", ".ts">>
      [] p = "secrets/README.md" -> <<"secrets", "/", "README", ".md">>
      [] p = "env.ts" -> <<"env", ".ts">>
      [] p = "src/keys.ts" -> <<"src", "/", "key", "s", ".ts">>

\* The files a repository of the model may hold, in the order glob lists them.
Universe ==
    << "package.json", "requirements.txt", "README.md", "docs/secrets.md",
       "tsconfig.json", "src/index.ts", "lib/index.ts", "src/utils/db.ts" >>

Paths == {Universe[i] : i \in 1..Len(Universe)}

\* stats.size in bytes and content.length in UTF-16 units of each file.
FileSize(p) ==
    CASE p = "package.json" -> 2
      [] p = "requirements.txt" -> 1
      [] p = "README.md" -> 5
      [] p = "docs/secrets.md" -> 2
      [] p = "tsconfig.json" -> 1
      [] p = "src/index.ts" -> 3
      [] p = "lib/index.ts" -> 2
      [] p = "src/utils/db.ts" -> 4

FileLength(p) ==
    CASE p = "package.json" -> 2
      [] p = "requirements.txt" -> 1
      [] p = "README.md" -> 5
      [] p = "docs/secrets.md" -> 2
      [] p = "tsconfig.json" -> 1
      [] p = "src/index.ts" -> 3
      [] p = "lib/index.ts" -> 1
      [] p = "src/utils/db.ts" -> 4

\* The content of each file, by name; two files may hold the same content.
FileContent(p) ==
    CASE p = "src/index.ts" -> "content-index"
      [] p = "lib/index.ts" -> "content-index"
      [] OTHER -> p

ToLowerCaseTok(t) ==
    CASE t = "README" -> "readme"
      [] t = ".ENV" -> ".env"
      [] t = ".PEM" -> ".pem"
      [] t = "Credentials" -> "credentials"
      [] OTHER -> t
ToLowerCase(ts) == [i \in 1..Len(ts) |-> ToLowerCaseTok(ts[i])]

EndsWith(s, suffix) ==
    Len(suffix) <= Len(s) /\ SubSeq(s, Len(s) - Len(suffix) + 1, Len(s)) = suffix
StartsWith(s, prefix) ==
    Len(prefix) <= Len(s) /\ SubSeq(s, 1, Len(prefix)) = prefix

\* path.basename: the text behind the last "/".
RECURSIVE Basename(_)
Basename(ts) ==
    IF Includes(ts, <<"/">>)
    THEN Basename(SubstringFrom(ts, IndexOf(ts, <<"/">>) + 1))
    ELSE ts

\* The subsequence of a list whose elements satisfy a test (Array.filter).
RECURSIVE SelectSeq2(_, _)
SelectSeq2(list, keep) ==
    IF list = <<>> THEN <<>>
    ELSE (IF Head(list) \in keep THEN <<Head(list)>> ELSE <<>>)
             \o SelectSeq2(Tail(list), keep)

Range(list) == {list[i] : i \in 1..Len(list)}

\* glob(pattern, {cwd}): the files of the repository the pattern matches.
Glob(files, matching) == SelectSeq2(Universe, {p \in files : p \in matching})

(***************************************************************************)
(* Repository indexer: the parts of RepoIndex the context builder reads.   *)
(***************************************************************************)
\* (every package.json of the universe parses)
\* '**/package.json', '**/Cargo.toml', '**/{pyproject.toml,requirements.txt,
\* setup.py}', '**/go.mod', '**/Gemfile', in this order.
ManifestNames ==
    << <<"package", ".json">>, <<"Cargo", ".toml">>, <<"pyproject", ".toml">>,
       <<"requirements", ".txt">>, <<"setup", ".py">>, <<"go", ".mod">>, <<"Gemfile">> >>

RECURSIVE FindManifestsFrom(_, _)
FindManifestsFrom(files, names) ==
    IF names = <<>> THEN <<>>
    ELSE Glob(files, {p \in Paths : Basename(Toks(p)) = Head(names)})
             \o FindManifestsFrom(files, Tail(names))

findManifests(files) == FindManifestsFrom(files, ManifestNames)

\* 'src/index.{ts,tsx,js,jsx}', ... : the entry patterns that name a file of
\* the universe, in the order of the list.
EntryPatterns ==
    << {<<"src", "/", "index", e>> : e \in {".ts", ".tsx", ".js", ".jsx"}},
       {<<"src", "/", "main", e>> : e \in {".ts", ".tsx", ".js", ".jsx", ".py", ".rs", ".go"}},
       {<<"src", "/", "app", e>> : e \in {".ts", ".tsx", ".js", ".jsx", ".py"}},
       {<<"index", e>> : e \in {".ts", ".tsx", ".js", ".jsx"}},
       {<<"main", e>> : e \in {".ts", ".tsx", ".js", ".jsx", ".py", ".rs", ".go"}},
       {<<"app", e>> : e \in {".ts", ".tsx", ".js", ".jsx", ".py"}},
       {<<"lib", "/", "index", e>> : e \in {".ts", ".tsx", ".js", ".jsx"}},
       {<<"pages", "/", "index", e>> : e \in {".ts", ".tsx", ".js", ".jsx"}},
       {<<"app", "/", "page", e>> : e \in {".ts", ".tsx", ".js", ".jsx"}},
       {<<"src", "/", "lib", ".rs">>},
       {ts \in {Toks(p) : p \in Paths} :
           /\ Len(ts) = 6
           /\ <<ts[1], ts[2], ts[4], ts[5], ts[6]>> = <<"cmd", "/", "/", "main", ".go">>} >>

\* [...new Set(list)]: the first occurrence of each element, in order.
RECURSIVE Dedupe(_)
Dedupe(list) ==
    IF list = <<>> THEN <<>>
    ELSE LET front == Dedupe(SubSeq(list, 1, Len(list) - 1))
             last == list[Len(list)]
         IN  IF last \in Range(front) THEN front ELSE Append(front, last)

RECURSIVE FindEntrypointsFrom(_, _)
FindEntrypointsFrom(files, patterns) ==
    IF patterns = <<>> THEN <<>>
    ELSE Glob(files, {p \in Paths : Toks(p) \in Head(patterns)})
             \o FindEntrypointsFrom(files, Tail(patterns))

findEntrypoints(files) == Dedupe(FindEntrypointsFrom(files, EntryPatterns))

RelevantNames ==
    { <<"tsconfig">>, <<"eslint">>, <<"prettier">>, <<".env", ".example">>,
      <<"jest", ".config">>, <<"vitest", ".config">>, <<"webpack", ".config">>,
      <<"vite", ".config">>, <<"rollup", ".config">>, <<"babel", ".config">>,
      <<"tailwind", ".config">>, <<"postcss", ".config">>, <<"docker-compose">>,
      <<"Dockerfile">>, <<".github", "/", "workflows">> }

isRelevantConfig(p) ==
    \E name \in RelevantNames : Includes(ToLowerCase(Toks(p)), ToLowerCase(name))

Slice(list, n) == SubSeq(list, 1, Min(n, Len(list)))

EntrypointCap == 10
ConfigCap == 20
DocCap == 20

\* indexRepository: what it puts into manifests, entrypoints, configs, docs.
indexRepository(files) ==
    [ manifests |-> findManifests(files),
      entrypoints |-> Slice(findEntrypoints(files), EntrypointCap),
      configs |->
          Slice(Glob(files, {p \in Paths :
                        /\ Toks(p)[Len(Toks(p))] \in {".json", ".yaml", ".yml", ".toml", ".ini"}
                        /\ isRelevantConfig(p)}), ConfigCap),
      docs |->
          Slice(Glob(files, {p \in Paths :
                        Toks(p)[Len(Toks(p))] \in {".md", ".mdx", ".txt", ".rst"}}), DocCap) ]


(***************************************************************************)
(* Context builder.                                                        *)
(***************************************************************************)
DefaultMaxFiles == 50
DefaultMaxTotalSize == 500000
DefaultMaxTokens == 100000
CHARS_PER_TOKEN == 4

DEFAULT_CONFIG ==
    [maxFiles |-> DefaultMaxFiles, maxTotalSize |-> DefaultMaxTotalSize,
     maxTokens |-> DefaultMaxTokens]

\* Math.ceil(a / b) for a >= 0, b > 0.
CeilDiv(a, b) == (a + b - 1) \div b

\* The first 16 hex digits of the SHA-256 digest of the content: the digest
\* is named by the content it is the digest of.
hashContent(content) == <<"sha256/16", content>>

EmptyBundle ==
    [manifests |-> <<>>, entrypoints |-> <<>>, configs |-> <<>>, docs |-> <<>>,
     samples |-> <<>>, contentHashes |-> <<>>, totalTokenEstimate |-> 0]

getTotalFiles(b) ==
    Len(b.manifests) + Len(b.entrypoints) + Len(b.configs) + Len(b.docs) + Len(b.samples)

getBundleFiles(b) == b.manifests \o b.entrypoints \o b.configs \o b.docs \o b.samples

\* Map.set: the entry of the key is replaced in place, a new key is appended.
MapSet(m, k, v) ==
    IF \E i \in 1..Len(m) : m[i][1] = k
    THEN [i \in 1..Len(m) |-> IF m[i][1] = k THEN <<k, v>> ELSE m[i]]
    ELSE Append(m, <<k, v>>)

\* The state addFile reads and writes: the bundle and the two running totals.
BuildState(b, size, tokens) == [bundle |-> b, currentSize |-> size, currentTokens |-> tokens]

\* Mutant: the size check is made against the size accepted so far only.
AddFile_sizeBeforeAdd(st, config, files, noRead, path, category) ==
    LET size == FileSize(path)
        tokens == CeilDiv(FileLength(path), CHARS_PER_TOKEN)
    IN  IF path \notin files \/ path \in noRead THEN [st |-> st, ok |-> FALSE]
        ELSE IF st.currentSize > config.maxTotalSize THEN [st |-> st, ok |-> FALSE]
        ELSE IF st.currentTokens + tokens > config.maxTokens THEN [st |-> st, ok |-> FALSE]
        ELSE IF getTotalFiles(st.bundle) >= config.maxFiles THEN [st |-> st, ok |-> FALSE]
        ELSE [ st |-> BuildState(
                         [st.bundle EXCEPT
                             ![category] = Append(@, path),
                             !.contentHashes = MapSet(@, path, hashContent(FileContent(path))),
                             !.totalTokenEstimate = st.currentTokens + tokens],
                         st.currentSize + size,
                         st.currentTokens + tokens),
               ok |-> TRUE ]

\* Mutant: the content hash is recorded as soon as the file is read.
AddFile_hashBeforeChecks(st, config, files, noRead, path, category) ==
    LET size == FileSize(path)
        tokens == CeilDiv(FileLength(path), CHARS_PER_TOKEN)
        hashed == [st EXCEPT !.bundle.contentHashes =
                                 MapSet(@, path, hashContent(FileContent(path)))]
    IN  IF path \notin files \/ path \in noRead THEN [st |-> st, ok |-> FALSE]
        ELSE IF st.currentSize + size > config.maxTotalSize THEN [st |-> hashed, ok |-> FALSE]
        ELSE IF st.currentTokens + tokens > config.maxTokens THEN [st |-> hashed, ok |-> FALSE]
        ELSE IF getTotalFiles(st.bundle) >= config.maxFiles THEN [st |-> hashed, ok |-> FALSE]
        ELSE [ st |-> BuildState(
                         [st.bundle EXCEPT
                             ![category] = Append(@, path),
                             !.contentHashes = MapSet(@, path, hashContent(FileContent(path))),
                             !.totalTokenEstimate = st.currentTokens + tokens],
                         st.currentSize + size,
                         st.currentTokens + tokens),
               ok |-> TRUE ]

\* addFile(path, category): stat and read the file (a failure rejects it),
\* check the three limits, then append, record the hash and add to the totals.
AddFile(st, config, files, noRead, path, category) ==
    LET size == FileSize(path)
        tokens == CeilDiv(FileLength(path), CHARS_PER_TOKEN)
    IN  IF path \notin files \/ path \in noRead THEN [st |-> st, ok |-> FALSE]
        ELSE IF st.currentSize + size > config.maxTotalSize THEN [st |-> st, ok |-> FALSE]
        ELSE IF st.currentTokens + tokens > config.maxTokens THEN [st |-> st, ok |-> FALSE]
        ELSE IF getTotalFiles(st.bundle) >= config.maxFiles THEN [st |-> st, ok |-> FALSE]
        ELSE [ st |-> BuildState(
                         [st.bundle EXCEPT
                             ![category] = Append(@, path),
                             !.contentHashes = MapSet(@, path, hashContent(FileContent(path))),
                             !.totalTokenEstimate = st.currentTokens + tokens],
                         st.currentSize + size,
                         st.currentTokens + tokens),
               ok |-> TRUE ]

docPriority ==
    << <<"README", ".md">>, <<"ARCHITECTURE", ".md">>, <<"CONTRIBUTING", ".md">>,
       <<"AGENTS", ".md">> >>

configPriority ==
    << <<"tsconfig", ".json">>, <<".eslintrc", ".json">>, <<".eslintrc", ".js">>,
       <<"eslint", ".config", ".js">>, <<"vite", ".config", ".ts">>,
       <<"webpack", ".config", ".js">>,
       <<".github", "/", "workflows", "/", "ci", ".yml">>,
       <<".github", "/", "workflows", "/", "ci", ".yaml">>,
       <<"docker-compose", ".yml">> >>

\* Array.find: the first element that satisfies the test, as a list of at
\* most one element (empty for undefined).
Find(list, keep) == Slice(SelectSeq2(list, keep), 1)

Call(path, category) == [path |-> path, category |-> category]
Calls(list, category) == [i \in 1..Len(list) |-> Call(list[i], category)]

RECURSIVE PriorityDocsFrom(_, _)
PriorityDocsFrom(docs, names) ==
    IF names = <<>> THEN <<>>
    ELSE Find(docs, {d \in Range(docs) :
                        ToLowerCase(Toks(d)) = ToLowerCase(Head(names))})
             \o PriorityDocsFrom(docs, Tail(names))

OtherDocs(docs) ==
    SelectSeq2(docs, {d \in Range(docs) :
                        ~\E i \in 1..Len(docPriority) :
                            ToLowerCase(Toks(d)) = ToLowerCase(docPriority[i])})

RECURSIVE PriorityConfigsFrom(_, _)
PriorityConfigsFrom(configs, names) ==
    IF names = <<>> THEN <<>>
    ELSE Find(configs, {c \in Range(configs) :
                           EndsWith(Toks(c), Head(names)) \/ Toks(c) = Head(names)})
             \o PriorityConfigsFrom(configs, Tail(names))

\* Mutant: the entry points are tried before the configs and the docs.
PriorityCalls_entrypointsEarly(index) ==
    Calls(index.manifests, "manifests")
        \o Calls(index.entrypoints, "entrypoints")
        \o Calls(PriorityDocsFrom(index.docs, docPriority), "docs")
        \o Calls(OtherDocs(index.docs), "docs")
        \o Calls(PriorityConfigsFrom(index.configs, configPriority), "configs")

\* The addFile calls of priorities 1 to 4, in the order the loops make them.
PriorityCalls(index) ==
    Calls(index.manifests, "manifests")
        \o Calls(PriorityDocsFrom(index.docs, docPriority), "docs")
        \o Calls(OtherDocs(index.docs), "docs")
        \o Calls(PriorityConfigsFrom(index.configs, configPriority), "configs")
        \o Calls(index.entrypoints, "entrypoints")

\* '**/services/**/*.{ts,js}', ...: the directory and the extensions of each
\* architectural pattern.
architecturalPatterns ==
    << [dir |-> "services", ext |-> {".ts", ".js"}],
       [dir |-> "controllers", ext |-> {".ts", ".js"}],
       [dir |-> "models", ext |-> {".ts", ".js"}],
       [dir |-> "components", ext |-> {".tsx", ".jsx"}],
       [dir |-> "hooks", ext |-> {".ts", ".tsx"}],
       [dir |-> "utils", ext |-> {".ts", ".js"}],
       [dir |-> "lib", ext |-> {".ts", ".js"}],
       [dir |-> "api", ext |-> {".ts", ".js"}],
       [dir |-> "routes", ext |-> {".ts", ".js"}],
       [dir |-> "middleware", ext |-> {".ts", ".js"}] >>

MatchesArchitectural(p, pat) ==
    LET ts == Toks(p)
    IN  /\ ts[Len(ts)] \in pat.ext
        /\ \E i \in 1..(Len(ts) - 2) :
              /\ ts[i] = pat.dir
              /\ ts[i + 1] = "/"
              /\ i = 1 \/ ts[i - 1] = "/"

SamplesPerPattern == 2

\* The inner loop: push the matches not yet among the samples, up to maxCount.
RECURSIVE TakeMatches(_, _, _)
TakeMatches(samples, matches, maxCount) ==
    IF matches = <<>> \/ Len(samples) >= maxCount THEN samples
    ELSE TakeMatches(IF Head(matches) \in Range(samples) THEN samples
                     ELSE Append(samples, Head(matches)),
                     Tail(matches), maxCount)

RECURSIVE SamplesFrom(_, _, _, _)
SamplesFrom(samples, files, patterns, maxCount) ==
    IF patterns = <<>> \/ Len(samples) >= maxCount THEN samples
    ELSE SamplesFrom(
             TakeMatches(samples,
                         Slice(Glob(files, {p \in Paths :
                                       MatchesArchitectural(p, Head(patterns))}),
                               SamplesPerPattern),
                         maxCount),
             files, Tail(patterns), maxCount)

selectRepresentativeSamples(files, maxCount) ==
    IF maxCount <= 0 THEN <<>> ELSE SamplesFrom(<<>>, files, architecturalPatterns, maxCount)

\* A run of addFile calls.
RECURSIVE AddAll(_, _, _, _, _)
AddAll(st, config, files, noRead, calls) ==
    IF calls = <<>> THEN st
    ELSE AddAll(AddFile(st, config, files, noRead, Head(calls).path, Head(calls).category).st,
                config, files, noRead, Tail(calls))

\* buildAnalysisBundle(repoPath, index, config) as one function.
buildAnalysisBundle(files, noRead, index, config) ==
    LET st4 == AddAll(BuildState(EmptyBundle, 0, 0), config, files, noRead,
                      PriorityCalls(index))
        samples == selectRepresentativeSamples(files,
                       config.maxFiles - getTotalFiles(st4.bundle))
    IN  AddAll(st4, config, files, noRead, Calls(samples, "samples")).bundle

(***************************************************************************)
(* buildAnalysisBundle, one addFile call at a time.                        *)
(***************************************************************************)
\* The limits a caller may pass in config; a key left out keeps its default.
ConfigMaxFiles == {0, 1, 2, DefaultMaxFiles}
ConfigMaxTotalSize == {4, DefaultMaxTotalSize}
ConfigMaxTokens == {2, DefaultMaxTokens}

Configs ==
    [maxFiles : ConfigMaxFiles, maxTotalSize : ConfigMaxTotalSize,
     maxTokens : ConfigMaxTokens]

\* The files a permission error may hide from readFile.
UnreadableCandidates == {"README.md"}

NoAttempt == [path |-> "", category |-> "", ok |-> FALSE, before |-> EmptyBundle]

BundleInit ==
    /\ repo \in SUBSET Paths
    /\ plan = PriorityCalls(indexRepository(repo))
    /\ unreadable \in SUBSET (UnreadableCandidates \cap repo)
    /\ cfg \in Configs
    /\ bundle = EmptyBundle
    /\ currentSize = 0
    /\ currentTokens = 0
    /\ bpc = "priority"
    /\ attempt = NoAttempt

\* One iteration of a loop of priorities 1 to 4, or of the loop over the
\* samples: the next addFile call.
AddFileCall ==
    /\ bpc \in {"priority", "samples"}
    /\ plan # <<>>
    /\ LET call == Head(plan)
           r == AddFile(BuildState(bundle, currentSize, currentTokens), cfg, repo,
                        unreadable, call.path, call.category)
       IN  /\ bundle' = r.st.bundle
           /\ currentSize' = r.st.currentSize
           /\ currentTokens' = r.st.currentTokens
           /\ attempt' = [path |-> call.path, category |-> call.category, ok |-> r.ok,
                          before |-> bundle]
    /\ plan' = Tail(plan)
    /\ UNCHANGED <<repo, unreadable, cfg, bpc>>
    /\ UNCHANGED notBundleVars

\* Priority 5 begins: selectRepresentativeSamples with the file budget left.
SelectSamples ==
    /\ bpc = "priority"
    /\ plan = <<>>
    /\ plan' = Calls(selectRepresentativeSamples(repo, cfg.maxFiles - getTotalFiles(bundle)),
                     "samples")
    /\ bpc' = "samples"
    /\ UNCHANGED <<repo, unreadable, cfg, bundle, currentSize, currentTokens, attempt>>
    /\ UNCHANGED notBundleVars

ReturnBundle ==
    /\ bpc = "samples"
    /\ plan = <<>>
    /\ bpc' = "done"
    /\ UNCHANGED <<repo, unreadable, cfg, bundle, currentSize, currentTokens, plan, attempt>>
    /\ UNCHANGED notBundleVars

BundleNext == AddFileCall \/ SelectSamples \/ ReturnBundle


(***************************************************************************)
(* StateManager.  A state object in memory is its four properties and the  *)
(* identity of its findings array: "shared" when the property still refers *)
(* to the array of EMPTY_STATE, which every state object spread from       *)
(* EMPTY_STATE in the same process refers to, "own" when JSON.parse made   *)
(* the array.  The content of the shared array is kept per process.        *)
(***************************************************************************)
JsNull == "null"

\* EMPTY_STATE, with the present content of its findings array.
EMPTY_STATE(shared) ==
    [lastReviewedCommit |-> JsNull, lastReviewedAt |-> JsNull, agentsMdHash |-> JsNull,
     findings |-> shared]

\* { ...a, ...b }
Spread(a, b) ==
    [k \in (DOMAIN a) \cup (DOMAIN b) |-> IF k \in DOMAIN b THEN b[k] ELSE a[k]]

Missing == [kind |-> "missing"]
Corrupt == [kind |-> "corrupt"]
Json(obj) == [kind |-> "json", obj |-> obj]

\* load(): readFile and JSON.parse throw for a missing and for a corrupt file.
load(file, shared) ==
    IF file.kind = "json"
    THEN [obj |-> Spread(EMPTY_STATE(shared), file.obj),
          ref |-> IF "findings" \in DOMAIN file.obj THEN "own" ELSE "shared"]
    ELSE [obj |-> EMPTY_STATE(shared), ref |-> "shared"]

\* The properties of a state object as they read now.
Deref(st, shared) == IF st.ref = "shared" THEN [st.obj EXCEPT !.findings = shared] ELSE st.obj

\* update(): { ...current, ...partial }
update(current, partial) ==
    [obj |-> Spread(current.obj, partial),
     ref |-> IF "findings" \in DOMAIN partial THEN "own" ELSE current.ref]

\* Mutant: the id is never found.
HasFinding_never(findings, id) == FALSE

\* findings.some(f => f.id === id)
HasFinding(findings, id) == \E i \in 1..Len(findings) : findings[i].id = id

\* findings.find(f => f.id === id): its index, 0 for undefined.
FindFinding(findings, id) ==
    IF HasFinding(findings, id)
    THEN CHOOSE i \in 1..Len(findings) :
             /\ findings[i].id = id
             /\ \A j \in 1..(i - 1) : findings[j].id # id
    ELSE 0

\* save(): JSON.stringify of the object as it reads when writeFile is called.
save(st, shared) == Json(Deref(st, shared))

Repos == {"repoA", "repoB"}
Procs == {"p1", "p2"}
FindingIds == {"f1", "f2"}
Times == {"t1", "t2"}
Commits == {"c1"}

MaxCalls == 2

NewFinding(id) ==
    [id |-> id, severity |-> "low", section |-> "Quick Start", suggestion |-> "s",
     evidence |-> "e"]

\* The arguments addFinding accepts: Omit<Finding, 'status' | 'introducedAt'>
\* keeps the optional resolvedAt.
FindingInputs ==
    {NewFinding(id) : id \in FindingIds}
        \cup {Spread(NewFinding(id), [resolvedAt |-> t]) : id \in FindingIds, t \in {"t1"}}

Partials ==
    {[lastReviewedCommit |-> c, lastReviewedAt |-> "t1"] : c \in Commits \cup {JsNull}}
        \cup {[agentsMdHash |-> "h1"]}

NoCall == [op |-> "none"]
\* A call a caller made: what was called, on which file, with which id, and
\* whether it went on to write the file.
Called(op, p, r, id, writes) == [op |-> op, proc |-> p, repo |-> r, id |-> id, writes |-> writes]
NoCallYet == Called("none", "", "", "", FALSE)
NoLoad == [proc |-> "", repo |-> "", file |-> "none", state |-> EMPTY_STATE(<<>>)]

StateInit ==
    /\ stateFiles \in [Repos -> {Missing, Corrupt}]
    /\ emptyFindings = [p \in Procs |-> <<>>]
    /\ pending = [p \in Procs |-> NoCall]
    /\ lastLoad = NoLoad
    /\ lastCall = NoCallYet
    /\ callCount = 0

\* await manager.load()
Load(p, r) ==
    /\ pending[p] = NoCall
    /\ callCount < MaxCalls
    /\ callCount' = callCount + 1
    /\ lastCall' = Called("load", p, r, "", FALSE)
    /\ lastLoad' = [proc |-> p, repo |-> r, file |-> stateFiles[r].kind,
                    state |-> load(stateFiles[r], emptyFindings[p]).obj]
    /\ UNCHANGED <<stateFiles, emptyFindings, pending>>
    /\ UNCHANGED notStateVars

\* update(partial) up to its writeFile.
Update(p, r, partial) ==
    /\ pending[p] = NoCall
    /\ callCount < MaxCalls
    /\ callCount' = callCount + 1
    /\ pending' = [pending EXCEPT ![p] =
                      [op |-> "update", repo |-> r,
                       st |-> update(load(stateFiles[r], emptyFindings[p]), partial)]]
    /\ lastCall' = Called("update", p, r, "", TRUE)
    /\ UNCHANGED <<stateFiles, emptyFindings, lastLoad>>
    /\ UNCHANGED notStateVars

\* addFinding(finding) up to its writeFile: the push is made on the array the
\* loaded state refers to.
AddFinding(p, r, finding, now) ==
    LET current == load(stateFiles[r], emptyFindings[p])
        pushed == Append(current.obj.findings,
                         Spread(finding, [status |-> "open", introducedAt |-> now]))
    IN  /\ pending[p] = NoCall
        /\ callCount < MaxCalls
        /\ callCount' = callCount + 1
        /\ IF HasFinding(current.obj.findings, finding.id)
           THEN UNCHANGED <<emptyFindings, pending>>
           ELSE /\ emptyFindings' =
                      IF current.ref = "shared"
                      THEN [emptyFindings EXCEPT ![p] = pushed]
                      ELSE emptyFindings
                /\ pending' = [pending EXCEPT ![p] =
                      [op |-> "addFinding", repo |-> r,
                       st |-> [current EXCEPT !.obj.findings = pushed]]]
        /\ lastCall' = Called("addFinding", p, r, finding.id, ~HasFinding(current.obj.findings, finding.id))
        /\ UNCHANGED <<stateFiles, lastLoad>>
        /\ UNCHANGED notStateVars

\* resolveFinding(id) up to its writeFile.
ResolveFinding(p, r, id, now) ==
    LET current == load(stateFiles[r], emptyFindings[p])
        i == FindFinding(current.obj.findings, id)
        resolved == [current.obj.findings EXCEPT
                        ![i] = Spread(@, [status |-> "resolved", resolvedAt |-> now])]
    IN  /\ pending[p] = NoCall
        /\ callCount < MaxCalls
        /\ callCount' = callCount + 1
        /\ IF i = 0
           THEN UNCHANGED <<emptyFindings, pending>>
           ELSE /\ emptyFindings' =
                      IF current.ref = "shared"
                      THEN [emptyFindings EXCEPT ![p] = resolved]
                      ELSE emptyFindings
                /\ pending' = [pending EXCEPT ![p] =
                      [op |-> "resolveFinding", repo |-> r,
                       st |-> [current EXCEPT !.obj.findings = resolved]]]
        /\ lastCall' = Called("resolveFinding", p, r, id, i # 0)
        /\ UNCHANGED <<stateFiles, lastLoad>>
        /\ UNCHANGED notStateVars

\* Mutant: the write keeps the findings the file holds and the writer lacks.
Save_keepsFindings(p) ==
    /\ pending[p] # NoCall
    /\ stateFiles' = [stateFiles EXCEPT ![pending[p].repo] =
          LET mine == save(pending[p].st, emptyFindings[p])
              theirs == IF @.kind = "json" THEN @.obj.findings ELSE <<>>
          IN  [mine EXCEPT !.obj.findings =
                  @ \o SelectSeq(theirs, LAMBDA f : ~HasFinding(mine.obj.findings, f.id))]]
    /\ pending' = [pending EXCEPT ![p] = NoCall]
    /\ UNCHANGED <<emptyFindings, lastLoad, lastCall, callCount>>
    /\ UNCHANGED notStateVars

\* mkdir, then writeFile(statePath, JSON.stringify(...)).
Save(p) ==
    /\ pending[p] # NoCall
    /\ stateFiles' = [stateFiles EXCEPT ![pending[p].repo] =
                         save(pending[p].st, emptyFindings[p])]
    /\ pending' = [pending EXCEPT ![p] = NoCall]
    /\ UNCHANGED <<emptyFindings, lastLoad, lastCall, callCount>>
    /\ UNCHANGED notStateVars

LoadCall == \E p \in Procs, r \in Repos : Load(p, r)
UpdateCall == \E p \in Procs, r \in Repos, partial \in Partials : Update(p, r, partial)
AddFindingCall ==
    \E p \in Procs, r \in Repos, finding \in FindingInputs, now \in Times :
        AddFinding(p, r, finding, now)
ResolveFindingCall == \E p \in Procs, r \in Repos, id \in FindingIds, now \in Times : ResolveFinding(p, r, id, now)
SaveStep == \E p \in Procs : Save(p)

StateNext == LoadCall \/ UpdateCall \/ AddFindingCall \/ ResolveFindingCall \/ SaveStep

(***************************************************************************)
(* Secret scanner.  The text of a file is modelled by what the scanner     *)
(* reads in it: the matches of SECRET_PATTERNS, in the order the loops     *)
(* find them, each with its line, its type, whether its line begins like a *)
(* comment and whether the matched text holds a placeholder word; and      *)
(* whether the text holds an example marker ('your-api-key-here',          *)
(* 'YOUR_API_KEY', 'xxx').                                                 *)
(***************************************************************************)
DANGEROUS_FILES ==
    { <<".env">>, <<".env", ".local">>, <<".env", ".production">>,
      <<".env", ".development">>, <<".npmrc">>, <<".netrc">>,
      <<"credentials", ".json">>, <<"secrets", ".json">>,
      <<"config", "/", "secrets", ".yml">>, <<"id_rsa">>, <<"id_ed25519">>,
      <<".pem">>, <<".key">>, <<"service-account", ".json">>,
      <<"gcloud-credentials", ".json">> }

\* Mutant: the whole path is tested, not its base name.
isDangerousFile_wholePath(filePath) ==
    LET fileName == ToLowerCase(Toks(filePath))
    IN  \/ fileName \in DANGEROUS_FILES
        \/ StartsWith(fileName, <<".env">>)
        \/ EndsWith(fileName, <<".pem">>)
        \/ EndsWith(fileName, <<".key">>)
        \/ Includes(fileName, <<"credentials">>)
        \/ Includes(fileName, <<"secrets">>)

\* A name of the universe holds the words 'credentials' and 'secrets' as
\* whole fragments only.
isDangerousFile(filePath) ==
    LET fileName == ToLowerCase(Basename(Toks(filePath)))
    IN  \/ fileName \in DANGEROUS_FILES
        \/ StartsWith(fileName, <<".env">>)
        \/ EndsWith(fileName, <<".pem">>)
        \/ EndsWith(fileName, <<".key">>)
        \/ Includes(fileName, <<"credentials">>)
        \/ Includes(fileName, <<"secrets">>)

isExampleFile(file, text) ==
    LET lowerFile == ToLowerCase(Toks(file))
    IN  \/ Includes(lowerFile, <<".example">>)
        \/ Includes(lowerFile, <<".template">>)
        \/ Includes(lowerFile, <<".sample">>)
        \/ EndsWith(lowerFile, <<".md">>)
        \/ text.marked

Issue(file, line, type) == [file |-> file, line |-> line, type |-> type]

RECURSIVE IssuesOf(_, _)
IssuesOf(file, matches) ==
    IF matches = <<>> THEN <<>>
    ELSE (IF Head(matches).commented \/ Head(matches).placeholder THEN <<>>
          ELSE <<Issue(file, Head(matches).line, Head(matches).type)>>)
             \o IssuesOf(file, Tail(matches))

scanContent(file, text) ==
    IF isExampleFile(file, text) THEN <<>> ELSE IssuesOf(file, text.matches)

\* Mutant: the loop without the file name check.
RECURSIVE ScanFrom_contentOnly(_, _)
ScanFrom_contentOnly(files, fileTexts) ==
    IF files = <<>> THEN <<>>
    ELSE LET file == Head(files)
         IN  (IF file \notin DOMAIN fileTexts THEN <<>>
              ELSE scanContent(file, fileTexts[file]))
                 \o ScanFrom_contentOnly(Tail(files), fileTexts)

\* The loop of scanForSecrets; readFile throws for a file that has no text.
RECURSIVE ScanFrom(_, _)
ScanFrom(files, fileTexts) ==
    IF files = <<>> THEN <<>>
    ELSE LET file == Head(files)
         IN  (IF isDangerousFile(file) THEN <<Issue(file, 0, "sensitive_file")>>
              ELSE IF file \notin DOMAIN fileTexts THEN <<>>
              ELSE scanContent(file, fileTexts[file]))
                 \o ScanFrom(Tail(files), fileTexts)

scanForSecrets(files, fileTexts) ==
    LET issues == ScanFrom(files, fileTexts)
    IN  [safe |-> Len(issues) = 0, issues |-> issues]

\* files.filter(f => !scanResult.issues.some(i => i.file === f))
WithoutIssues(files, scan) ==
    SelectSeq2(files, {f \in Range(files) :
                          ~\E i \in 1..Len(scan.issues) : scan.issues[i].file = f})

Match(line, type, commented, placeholder) ==
    [line |-> line, type |-> type, commented |-> commented, placeholder |-> placeholder]

PlainText == [marked |-> FALSE, matches |-> <<>>]
SecretText == [marked |-> FALSE, matches |-> <<Match(2, "password", FALSE, FALSE)>>]
CommentedText == [marked |-> FALSE, matches |-> <<Match(1, "token", TRUE, FALSE)>>]
ExampleText == [marked |-> TRUE, matches |-> <<Match(2, "password", FALSE, FALSE)>>]

\* The files of the universe that may hold a match, and what they may hold.
TextCandidates == {"package.json", "README.md", "src/index.ts"}
FileTexts == {PlainText, SecretText, ExampleText}

Trees(files) ==
    {t \in [files -> FileTexts \cup {CommentedText}] :
        \A f \in files :
            /\ f \notin TextCandidates => t[f] = PlainText
            /\ t[f] = CommentedText => f = "src/index.ts"
            /\ f = "README.md" => t[f] # ExampleText}

(***************************************************************************)
(* The review, generate and update commands, run in cwd = repoA by the     *)
(* process p1, one step per stage of the command.                          *)
(***************************************************************************)
Cwd == "repoA"
\* The files cwd may hold when a command runs.
CmdFiles == {"package.json", "README.md", "docs/secrets.md", "src/index.ts", "src/utils/db.ts"}
Self == "p1"

NoScan == [safe |-> TRUE, issues |-> <<>>]

\* The evidence before step 4: let changedFiles = [], commitMessages = [].
\* changedFiles and commitMessages name what the lists hold: nothing, what git
\* reports between the checkpoint and HEAD, or the 20 most recent commits.
NoEvidence ==
    [checkpoint |-> FALSE, threw |-> "none",
     changedFiles |-> "empty", commitMessages |-> "empty"]

\* result.output: JSON with suggestions, or any other text.
NoOutput == ""
OracleOutputs == {"{\"suggestions\": []}", "not json"}

CmdInit ==
    /\ cmd \in {"review", "generate", "update"}
    /\ cpc = "start"
    /\ tree \in SUBSET CmdFiles
    /\ texts \in Trees(tree)
    /\ hostDoc \in BOOLEAN
    /\ cmdBundle = EmptyBundle
    /\ scanResult = NoScan
    /\ evidence = NoEvidence
    /\ oracleCalled = FALSE
    /\ sent = <<>>
    /\ oracleOk = FALSE
    /\ exitAt = "none"
    /\ stateFiles \in
           [Repos -> {Missing, Corrupt,
                      Json([EMPTY_STATE(<<>>) EXCEPT !.lastReviewedCommit = "c1",
                                                     !.lastReviewedAt = "t1"])}]
    /\ stateFiles["repoB"] = Missing
    /\ stateFile0 = stateFiles[Cwd]
    /\ stateWrites = 0
    /\ artifactWrites = 0
    /\ oracleOutput = NoOutput
    /\ artifact = NoOutput
    /\ emptyFindings = [p \in Procs |-> <<>>]
    /\ pending = [p \in Procs |-> NoCall]
    /\ lastLoad = NoLoad
    /\ lastCall = NoCallYet
    /\ callCount = 0

\* process.exit(1)
Exit(step) == cpc' = "exit" /\ exitAt' = step

\* ---- reviewCommand
\* Step 1: the pre-flight check, unless --skip-preflight.
ReviewPreflight ==
    /\ cmd = "review" /\ cpc = "start"
    /\ \E skipPreflight \in BOOLEAN, available \in BOOLEAN :
          IF ~skipPreflight /\ ~available
          THEN Exit("preflight")
          ELSE cpc' = "preflight-ok" /\ exitAt' = exitAt
    /\ UNCHANGED <<cmd, tree, texts, hostDoc, cmdBundle, scanResult, evidence, oracleCalled,
                   sent, oracleOk, stateFile0, stateWrites, artifactWrites>>
    /\ UNCHANGED <<stateVars, notCmdVars>>
    /\ UNCHANGED <<oracleOutput, artifact>>

\* Steps 2 and 3: read AGENTS.md.
ReviewReadAgents ==
    /\ cmd = "review" /\ cpc = "preflight-ok"
    /\ IF ~hostDoc THEN Exit("read") ELSE cpc' = "read" /\ exitAt' = exitAt
    /\ UNCHANGED <<cmd, tree, texts, hostDoc, cmdBundle, scanResult, evidence, oracleCalled,
                   sent, oracleOk, stateFile0, stateWrites, artifactWrites>>
    /\ UNCHANGED <<stateVars, notCmdVars>>
    /\ UNCHANGED <<oracleOutput, artifact>>

\* The calls of git that can throw inside the try of step 4.
GitOutcomes == {"ok", "diff-throws", "log-throws"}

\* The try block of step 4: with a checkpoint, git.diff then git.log over
\* checkpoint..HEAD, each assigned as soon as it returns; without one,
\* git.log({maxCount: 20}). The catch keeps what was assigned before the throw.
gatherEvidence(lastReviewedCommit, git) ==
    IF lastReviewedCommit # JsNull
    THEN [checkpoint |-> TRUE,
          threw |-> CASE git = "diff-throws" -> "diff"
                      [] git = "log-throws" -> "log"
                      [] OTHER -> "none",
          changedFiles |-> IF git = "diff-throws" THEN "empty" ELSE "range",
          commitMessages |-> IF git = "ok" THEN "range" ELSE "empty"]
    ELSE [checkpoint |-> FALSE,
          threw |-> IF git = "log-throws" THEN "log" ELSE "none",
          changedFiles |-> "empty",
          commitMessages |-> IF git = "ok" THEN "last20" ELSE "empty"]

\* Step 4: load the state, ask git for the evidence. Without a checkpoint
\* git.diff is not called, so it cannot throw.
ReviewGatherEvidence ==
    /\ cmd = "review" /\ cpc = "read"
    /\ LET stateData == load(stateFiles[Cwd], emptyFindings[Self]).obj
       IN  \E git \in GitOutcomes :
              /\ git = "diff-throws" => stateData.lastReviewedCommit # JsNull
              /\ evidence' = gatherEvidence(stateData.lastReviewedCommit, git)
    /\ cpc' = "evidence"
    /\ UNCHANGED <<cmd, tree, texts, hostDoc, cmdBundle, scanResult, oracleCalled,
                   sent, oracleOk, exitAt, stateFile0, stateWrites, artifactWrites>>
    /\ UNCHANGED <<stateVars, notCmdVars>>
    /\ UNCHANGED <<oracleOutput, artifact>>

\* Step 5: index the repository and build the bundle.
ReviewBuildBundle ==
    /\ cmd = "review" /\ cpc = "evidence"
    /\ cmdBundle' = buildAnalysisBundle(tree, {}, indexRepository(tree), DEFAULT_CONFIG)
    /\ cpc' = "bundled"
    /\ UNCHANGED <<cmd, tree, texts, hostDoc, scanResult, evidence, oracleCalled,
                   sent, oracleOk, exitAt, stateFile0, stateWrites, artifactWrites>>
    /\ UNCHANGED <<stateVars, notCmdVars>>
    /\ UNCHANGED <<oracleOutput, artifact>>

\* Step 6: the security scan.
ReviewScan ==
    /\ cmd = "review" /\ cpc = "bundled"
    /\ scanResult' = scanForSecrets(getBundleFiles(cmdBundle), texts)
    /\ cpc' = "scanned"
    /\ UNCHANGED <<cmd, tree, texts, hostDoc, cmdBundle, evidence, oracleCalled,
                   sent, oracleOk, exitAt, stateFile0, stateWrites, artifactWrites>>
    /\ UNCHANGED <<stateVars, notCmdVars>>
    /\ UNCHANGED <<oracleOutput, artifact>>

\* Mutant: the scan result is not applied.
safeFiles_unfiltered(files, scan) == files

\* const safeFiles = scanResult.safe ? files : files.filter(...)
safeFiles(files, scan) == IF scan.safe THEN files ELSE WithoutIssues(files, scan)

\* Mutant: a failed review goes on.
OracleFailed_never(success) == FALSE

\* if (!result.success) ... process.exit(1)
OracleFailed(success) == ~success

\* Steps 7 and 8: build the prompt, call executeOracle with safeFiles.
ReviewSend ==
    /\ cmd = "review" /\ cpc = "scanned"
    /\ oracleCalled' = TRUE
    /\ sent' = safeFiles(getBundleFiles(cmdBundle), scanResult)
    /\ \E success \in BOOLEAN, output \in OracleOutputs :
          /\ oracleOk' = success
          /\ oracleOutput' = output
          /\ IF OracleFailed(success) THEN Exit("oracle")
             ELSE cpc' = "reviewed" /\ exitAt' = exitAt
    /\ UNCHANGED artifact
    /\ UNCHANGED <<cmd, tree, texts, hostDoc, cmdBundle, scanResult, evidence,
                   stateFile0, stateWrites, artifactWrites>>
    /\ UNCHANGED <<stateVars, notCmdVars>>

\* Step 9: save the raw output as the review artifact.
ReviewSaveArtifact ==
    /\ cmd = "review" /\ cpc = "reviewed"
    /\ artifactWrites' = artifactWrites + 1
    /\ artifact' = oracleOutput
    /\ cpc' = "saved"
    /\ UNCHANGED <<cmd, tree, texts, hostDoc, cmdBundle, scanResult, evidence, oracleCalled,
                   sent, oracleOk, exitAt, stateFile0, stateWrites>>
    /\ UNCHANGED <<stateVars, notCmdVars>>
    /\ UNCHANGED oracleOutput

\* Step 10: state.update with the head commit (null without git) and now.
ReviewUpdateState ==
    /\ cmd = "review" /\ cpc = "saved"
    /\ \E headCommit \in Commits \cup {JsNull}, now \in Times :
          stateFiles' = [stateFiles EXCEPT ![Cwd] =
              save(update(load(stateFiles[Cwd], emptyFindings[Self]),
                          [lastReviewedCommit |-> headCommit, lastReviewedAt |-> now]),
                   emptyFindings[Self])]
    /\ stateWrites' = stateWrites + 1
    /\ cpc' = "done"
    /\ UNCHANGED <<cmd, tree, texts, hostDoc, cmdBundle, scanResult, evidence, oracleCalled,
                   sent, oracleOk, exitAt, stateFile0, artifactWrites>>
    /\ UNCHANGED <<emptyFindings, pending, lastLoad, lastCall, callCount, notCmdVars>>
    /\ UNCHANGED <<oracleOutput, artifact>>

\* ---- analyzeWithGPT: the files option of its executeOracle call.
AnalyzerFiles(b) == b.manifests \o b.entrypoints \o b.configs \o b.docs \o b.samples

\* ---- generateCommand
\* Step 1: the Oracle CLI must be there.
GenerateCheckOracle ==
    /\ cmd = "generate" /\ cpc = "start"
    /\ \E oracleAvailable \in BOOLEAN :
          IF ~oracleAvailable THEN Exit("oracle-cli")
          ELSE cpc' = "oracle-ok" /\ exitAt' = exitAt
    /\ UNCHANGED <<cmd, tree, texts, hostDoc, cmdBundle, scanResult, evidence, oracleCalled, sent, oracleOk>>
    /\ UNCHANGED <<stateFile0, stateWrites, artifactWrites, stateVars, notCmdVars>>
    /\ UNCHANGED <<oracleOutput, artifact>>

\* Step 2: .auracoil/config.yaml must be there.
GenerateCheckInit ==
    /\ cmd = "generate" /\ cpc = "oracle-ok"
    /\ \E initialized \in BOOLEAN :
          IF ~initialized THEN Exit("init")
          ELSE cpc' = "initialized" /\ exitAt' = exitAt
    /\ UNCHANGED <<cmd, tree, texts, hostDoc, cmdBundle, scanResult, evidence, oracleCalled, sent, oracleOk>>
    /\ UNCHANGED <<stateFile0, stateWrites, artifactWrites, stateVars, notCmdVars>>
    /\ UNCHANGED <<oracleOutput, artifact>>

\* Steps 3 and 4: index the repository and build the bundle.
GenerateBuildBundle ==
    /\ cmd = "generate" /\ cpc = "initialized"
    /\ cmdBundle' = buildAnalysisBundle(tree, {}, indexRepository(tree), DEFAULT_CONFIG)
    /\ cpc' = "bundled"
    /\ UNCHANGED <<cmd, tree, texts, hostDoc, scanResult, evidence, oracleCalled, sent, oracleOk, exitAt>>
    /\ UNCHANGED <<stateFile0, stateWrites, artifactWrites, stateVars, notCmdVars>>
    /\ UNCHANGED <<oracleOutput, artifact>>

\* Step 5: the security scan; safeFiles is local to the branch that logs it.
GenerateScan ==
    /\ cmd = "generate" /\ cpc = "bundled"
    /\ LET files == getBundleFiles(cmdBundle)
           scan == scanForSecrets(files, texts)
       IN  /\ scanResult' = scan
           /\ IF ~scan.safe /\ Len(WithoutIssues(files, scan)) = 0
              THEN Exit("scan")
              ELSE cpc' = "scanned" /\ exitAt' = exitAt
    /\ UNCHANGED <<cmd, tree, texts, hostDoc, cmdBundle, evidence, oracleCalled, sent, oracleOk>>
    /\ UNCHANGED <<stateFile0, stateWrites, artifactWrites, stateVars, notCmdVars>>
    /\ UNCHANGED <<oracleOutput, artifact>>

\* Step 6: a cached analysis of the bundle ends the command without a call.
GenerateCheckCache ==
    /\ cmd = "generate" /\ cpc = "scanned"
    /\ \E noCache \in BOOLEAN, cached \in BOOLEAN :
          cpc' = IF ~noCache /\ cached THEN "done" ELSE "analyze"
    /\ UNCHANGED <<cmd, tree, texts, hostDoc, cmdBundle, scanResult, evidence, oracleCalled, sent, oracleOk, exitAt>>
    /\ UNCHANGED <<stateFile0, stateWrites, artifactWrites, stateVars, notCmdVars>>
    /\ UNCHANGED <<oracleOutput, artifact>>

\* Step 7: analyzeWithGPT(cwd, index, bundle).
GenerateAnalyze ==
    /\ cmd = "generate" /\ cpc = "analyze"
    /\ oracleCalled' = TRUE
    /\ sent' = AnalyzerFiles(cmdBundle)
    /\ \E success \in BOOLEAN, markdown \in BOOLEAN :
          /\ oracleOk' = success
          /\ IF ~(success /\ markdown) THEN Exit("oracle")
             ELSE cpc' = "analyzed" /\ exitAt' = exitAt
    /\ UNCHANGED <<cmd, tree, texts, hostDoc, cmdBundle, scanResult, evidence>>
    /\ UNCHANGED <<stateFile0, stateWrites, artifactWrites, stateVars, notCmdVars>>
    /\ UNCHANGED <<oracleOutput, artifact>>

\* Steps 8 to 11: validate, cache, write the output and the index.
GenerateWrite ==
    /\ cmd = "generate" /\ cpc = "analyzed"
    /\ cpc' = "done"
    /\ UNCHANGED <<cmd, tree, texts, hostDoc, cmdBundle, scanResult, evidence, oracleCalled, sent, oracleOk, exitAt>>
    /\ UNCHANGED <<stateFile0, stateWrites, artifactWrites, stateVars, notCmdVars>>
    /\ UNCHANGED <<oracleOutput, artifact>>

\* ---- updateCommand
\* The Oracle CLI, .auracoil/config.yaml and AGENTS.md must be there.
UpdateChecks ==
    /\ cmd = "update" /\ cpc = "start"
    /\ \E oracleAvailable \in BOOLEAN, initialized \in BOOLEAN :
          IF ~oracleAvailable THEN Exit("oracle-cli")
          ELSE IF ~initialized THEN Exit("init")
          ELSE IF ~hostDoc THEN Exit("read")
          ELSE cpc' = "checked" /\ exitAt' = exitAt
    /\ UNCHANGED <<cmd, tree, texts, hostDoc, cmdBundle, scanResult, evidence, oracleCalled, sent, oracleOk>>
    /\ UNCHANGED <<stateFile0, stateWrites, artifactWrites, stateVars, notCmdVars>>
    /\ UNCHANGED <<oracleOutput, artifact>>

\* The files changed since the last index; none ends the command, a missing
\* index forces the full update.
UpdateChangedFiles ==
    /\ cmd = "update" /\ cpc = "checked"
    /\ \E force \in BOOLEAN, indexed \in BOOLEAN, changed \in BOOLEAN :
          cpc' = IF ~force /\ indexed /\ ~changed THEN "done" ELSE "changed"
    /\ UNCHANGED <<cmd, tree, texts, hostDoc, cmdBundle, scanResult, evidence, oracleCalled, sent, oracleOk, exitAt>>
    /\ UNCHANGED <<stateFile0, stateWrites, artifactWrites, stateVars, notCmdVars>>
    /\ UNCHANGED <<oracleOutput, artifact>>

UpdateBuildBundle ==
    /\ cmd = "update" /\ cpc = "changed"
    /\ cmdBundle' = buildAnalysisBundle(tree, {}, indexRepository(tree), DEFAULT_CONFIG)
    /\ cpc' = "bundled"
    /\ UNCHANGED <<cmd, tree, texts, hostDoc, scanResult, evidence, oracleCalled, sent, oracleOk, exitAt>>
    /\ UNCHANGED <<stateFile0, stateWrites, artifactWrites, stateVars, notCmdVars>>
    /\ UNCHANGED <<oracleOutput, artifact>>

\* The security scan: an unsafe result is logged.
UpdateScan ==
    /\ cmd = "update" /\ cpc = "bundled"
    /\ scanResult' = scanForSecrets(getBundleFiles(cmdBundle), texts)
    /\ cpc' = "scanned"
    /\ UNCHANGED <<cmd, tree, texts, hostDoc, cmdBundle, evidence, oracleCalled, sent, oracleOk, exitAt>>
    /\ UNCHANGED <<stateFile0, stateWrites, artifactWrites, stateVars, notCmdVars>>
    /\ UNCHANGED <<oracleOutput, artifact>>

UpdateAnalyze ==
    /\ cmd = "update" /\ cpc = "scanned"
    /\ oracleCalled' = TRUE
    /\ sent' = AnalyzerFiles(cmdBundle)
    /\ \E success \in BOOLEAN, markdown \in BOOLEAN :
          /\ oracleOk' = success
          /\ IF ~(success /\ markdown) THEN Exit("oracle")
             ELSE cpc' = "analyzed" /\ exitAt' = exitAt
    /\ UNCHANGED <<cmd, tree, texts, hostDoc, cmdBundle, scanResult, evidence>>
    /\ UNCHANGED <<stateFile0, stateWrites, artifactWrites, stateVars, notCmdVars>>
    /\ UNCHANGED <<oracleOutput, artifact>>

\* Merge the sections, write AGENTS.md and the index.
UpdateWrite ==
    /\ cmd = "update" /\ cpc = "analyzed"
    /\ cpc' = "done"
    /\ UNCHANGED <<cmd, tree, texts, hostDoc, cmdBundle, scanResult, evidence, oracleCalled, sent, oracleOk, exitAt>>
    /\ UNCHANGED <<stateFile0, stateWrites, artifactWrites, stateVars, notCmdVars>>
    /\ UNCHANGED <<oracleOutput, artifact>>

CmdNext ==
    \/ ReviewPreflight \/ ReviewReadAgents \/ ReviewGatherEvidence \/ ReviewBuildBundle
    \/ ReviewScan \/ ReviewSend \/ ReviewSaveArtifact \/ ReviewUpdateState
    \/ GenerateCheckOracle \/ GenerateCheckInit \/ GenerateBuildBundle \/ GenerateScan
    \/ GenerateCheckCache \/ GenerateAnalyze \/ GenerateWrite
    \/ UpdateChecks \/ UpdateChangedFiles \/ UpdateBuildBundle \/ UpdateScan
    \/ UpdateAnalyze \/ UpdateWrite

(***************************************************************************)
(* getBundleHash.  A content hash is a string of 16 hex digits; the order  *)
(* Array.prototype.sort() puts such strings in is the order of their hex   *)
(* digits, which is some total order of the hashes: hexOrder lists them in *)
(* ascending order.                                                        *)
(***************************************************************************)
\* Array.from(map.values())
Values(m) == [i \in 1..Len(m) |-> m[i][2]]

HexRank(h) == CHOOSE i \in 1..Len(hexOrder) : hexOrder[i] = h

\* Mutant: the hashes are joined in insertion order.
SortHashes_unsorted(list) == list

\* Array.prototype.sort() on strings: ascending, equal strings stay together.
RECURSIVE SortHashes(_)
SortHashes(list) ==
    IF list = <<>> THEN <<>>
    ELSE LET least == CHOOSE i \in 1..Len(list) :
                          /\ \A j \in 1..Len(list) : HexRank(list[i]) <= HexRank(list[j])
                          /\ \A j \in 1..(i - 1) : HexRank(list[j]) # HexRank(list[i])
         IN  <<list[least]>>
                 \o SortHashes([k \in 1..(Len(list) - 1) |->
                                  IF k < least THEN list[k] ELSE list[k + 1]])

\* Array.prototype.join(sep)
RECURSIVE Join(_, _)
Join(list, sep) ==
    IF list = <<>> THEN <<>>
    ELSE IF Len(list) = 1 THEN <<Head(list)>>
    ELSE <<Head(list), sep>> \o Join(Tail(list), sep)

getBundleHash(b) == hashContent(Join(SortHashes(Values(b.contentHashes)), <<":">>))

\* The bundles getBundleHash is called with: up to two files, each with one
\* of three contents, recorded in either order.
HashPaths == {"package.json", "README.md"}
HashContents == {"content-a", "content-b", "content-c"}
HashMaps ==
    {<<>>}
        \cup {<<<<p, hashContent(c)>>>> : p \in HashPaths, c \in HashContents}
        \cup {<<<<p, hashContent(c)>>, <<q, hashContent(e)>>>> :
                 p \in HashPaths, q \in HashPaths, c \in HashContents, e \in HashContents}

HexOrders ==
    {o \in [1..Cardinality(HashContents) -> {hashContent(c) : c \in HashContents}] :
        \A i, j \in 1..Cardinality(HashContents) : o[i] = o[j] => i = j}

BundleOf(m) == [EmptyBundle EXCEPT !.contentHashes = m]
NoHash == hashContent(<<>>)

HashInit ==
    /\ hexOrder \in HexOrders
    /\ mapA \in {m \in HashMaps : Len(m) = 2 => m[1][1] # m[2][1]}
    /\ mapB \in {m \in HashMaps : Len(m) = 2 => m[1][1] # m[2][1]}
    /\ hpc = "start"
    /\ hashA = NoHash
    /\ hashA2 = NoHash
    /\ hashB = NoHash

HashFirst ==
    /\ hpc = "start"
    /\ hashA' = getBundleHash(BundleOf(mapA))
    /\ hpc' = "first"
    /\ UNCHANGED <<hexOrder, mapA, mapB, hashA2, hashB>>
    /\ UNCHANGED notHashVars

HashAgain ==
    /\ hpc = "first"
    /\ hashA2' = getBundleHash(BundleOf(mapA))
    /\ hpc' = "again"
    /\ UNCHANGED <<hexOrder, mapA, mapB, hashA, hashB>>
    /\ UNCHANGED notHashVars

HashOther ==
    /\ hpc = "again"
    /\ hashB' = getBundleHash(BundleOf(mapB))
    /\ hpc' = "done"
    /\ UNCHANGED <<hexOrder, mapA, mapB, hashA, hashA2>>
    /\ UNCHANGED notHashVars

HashNext == HashFirst \/ HashAgain \/ HashOther

(***************************************************************************)
(* scanForSecrets called on a file list: the lists are those getBundleFiles *)
(* can return for the files below, which name no dangerous file twice.      *)
(***************************************************************************)
MaxScanFiles == 3

ScanPaths ==
    {"id_rsa", ".env.example", "docs/secrets.md", "README.md", "config.sample.json",
     "src/index.ts"}

ScanLists ==
    {l \in SeqsUpTo(ScanPaths, MaxScanFiles) : \A i, j \in 1..Len(l) : l[i] = l[j] => i = j}

\* Every file of the list is unreadable or holds one of the texts.
ScanTexts(l) ==
    UNION {[readable -> FileTexts \cup {CommentedText}] : readable \in SUBSET Range(l)}

ScanInit ==
    /\ scanList \in ScanLists
    /\ scanTexts \in ScanTexts(scanList)
    /\ spc = "start"
    /\ scanOut = NoScan

ScanCall ==
    /\ spc = "start"
    /\ scanOut' = scanForSecrets(scanList, scanTexts)
    /\ spc' = "done"
    /\ UNCHANGED <<scanList, scanTexts>>
    /\ UNCHANGED notScanVars

ScanNext == ScanCall

(***************************************************************************)
(* buildReviewPrompt.  A prompt is the sequence of its pieces of text: the *)
(* fixed pieces of the template and the interpolated values.               *)
(***************************************************************************)
ChangedFilesCap == 30
CommitMessagesCap == 15

\* list.map(x => `- ${x}`).join('\n')
Bullets(list) == Flatten(Join([i \in 1..Len(list) |-> <<"- ", list[i]>>], <<"\n">>))

evidenceSection(changedFiles, commitMessages) ==
    IF Len(changedFiles) > 0
    THEN <<"## Evidence: Recent Changes\n\n**Changed files (", ToString(Len(changedFiles)), "):**\n">>
             \o Bullets(Slice(changedFiles, ChangedFilesCap))
             \o <<"\n\n**Recent commits:**\n">>
             \o Bullets(Slice(commitMessages, CommitMessagesCap))
    ELSE <<"## Evidence: No recent changes (first review)">>

buildReviewPrompt(input) ==
    <<"You are reviewing AGENTS.md documentation for the ">>
        \o Join(input.languages, "/")
        \o <<" project \"", input.repoName, "\".\n\nYour role: CRITIC. [...]\n\n",
             "## Current AGENTS.md (Auracoil region only)\n\n",
             input.existingAgentsMd, "\n\n">>
        \o evidenceSection(input.changedFiles, input.commitMessages)
        \o <<"\n\n## Your Task\n\nReview the documentation [...] Return a JSON array of suggestions: [...]">>

\* What reviewCommand passes: the region or its stand-in, the files git diff
\* names (none without a checkpoint commit), the messages git log gives, the
\* directory's name and the languages of the index.
MaxEvidence == 2

ChangedFileNames == {"src/auth.ts", "src/db.ts"}
CommitMessageTexts == {"Add auth", "Add DB layer"}

PromptInputs ==
    [existingAgentsMd : {"## Overview", "(No Auracoil region yet - first review)"},
     changedFiles : SeqsUpTo(ChangedFileNames, MaxEvidence),
     commitMessages : SeqsUpTo(CommitMessageTexts, MaxEvidence),
     repoName : {"myapp"},
     languages : {<<>>, <<"TypeScript">>, <<"TypeScript", "Go">>}]

NoInput ==
    [existingAgentsMd |-> "", changedFiles |-> <<>>, commitMessages |-> <<>>,
     repoName |-> "", languages |-> <<>>]

PromptInit ==
    /\ promptInput \in PromptInputs
    /\ ppc = "start"
    /\ prompt = <<>>

BuildReviewPromptCall ==
    /\ ppc = "start"
    /\ prompt' = buildReviewPrompt(promptInput)
    /\ ppc' = "done"
    /\ UNCHANGED promptInput
    /\ UNCHANGED notPromptVars

PromptNext == BuildReviewPromptCall

(***************************************************************************)
(* isDangerousFile called on two paths, one after the other.               *)
(***************************************************************************)
DangerPaths ==
    {".env", "config/.ENV", ".envrc", ".env.example", "server.key", "keys/cert.PEM",
     "aws-Credentials.json", "docs/secrets.md", "id_rsa", "keys/id_rsa",
     "package.json", "index.ts", "src/index.ts", "README.md", "secrets/index.ts",
     "secrets/README.md", "env.ts", "src/keys.ts"}

DangerInit ==
    /\ dfPathA \in DangerPaths
    /\ dfPathB \in DangerPaths
    /\ dpc = "start"
    /\ dfResultA = FALSE
    /\ dfResultB = FALSE

DangerFirst ==
    /\ dpc = "start"
    /\ dfResultA' = isDangerousFile(dfPathA)
    /\ dpc' = "first"
    /\ UNCHANGED <<dfPathA, dfPathB, dfResultB>>
    /\ UNCHANGED notDangerVars

DangerSecond ==
    /\ dpc = "first"
    /\ dfResultB' = isDangerousFile(dfPathB)
    /\ dpc' = "done"
    /\ UNCHANGED <<dfPathA, dfPathB, dfResultA>>
    /\ UNCHANGED notDangerVars

DangerNext == DangerFirst \/ DangerSecond

(***************************************************************************)
(* Vocabulary of the region claims, stated without the parser's own       *)
(* operators.                                                              *)
(***************************************************************************)
\* m occurs in s at (1-based) position i.
OccursAt(s, m, i) == i >= 1 /\ i + Len(m) - 1 <= Len(s) /\ SubSeq(s, i, i + Len(m) - 1) = m
Occurs(s, m) == \E i \in 1..Len(s) : OccursAt(s, m, i)
Count(s, m) == Cardinality({i \in 1..Len(s) : OccursAt(s, m, i)})
IsFirst(s, m, i) == OccursAt(s, m, i) /\ \A k \in 1..(i - 1) : ~OccursAt(s, m, k)

AllWhitespace(s) == \A k \in 1..Len(s) : s[k] \in Whitespace
\* t is s without its leading and trailing whitespace.
IsTrimOf(t, s) ==
    /\ t = <<>> \/ (t[1] \notin Whitespace /\ t[Len(t)] \notin Whitespace)
    /\ \E a \in 0..Len(s) :
          /\ a + Len(t) <= Len(s)
          /\ AllWhitespace(SubSeq(s, 1, a))
          /\ SubSeq(s, a + 1, a + Len(t)) = t
          /\ AllWhitespace(SubSeq(s, a + Len(t) + 1, Len(s)))
IsTrimEndOf(t, s) ==
    /\ t = <<>> \/ t[Len(t)] \notin Whitespace
    /\ Len(t) <= Len(s)
    /\ SubSeq(s, 1, Len(t)) = t
    /\ AllWhitespace(SubSeq(s, Len(t) + 1, Len(s)))

\* r is d with the text between the BEGIN at i and the END at j replaced by
\* body, set between single newlines.
IsSplice(r, d, i, j, body) ==
    \E t \in {Trim(body)} :
        /\ IsTrimOf(t, body)
        /\ r = SubSeq(d, 1, i + Len(BEGIN_MARKER) - 1) \o <<"n">> \o t \o <<"n">>
                 \o SubSeq(d, j, Len(d))

\* Exactly one BEGIN, exactly one END, the BEGIN wholly before the END.
OneRegion(d) ==
    /\ Count(d, BEGIN_MARKER) = 1
    /\ Count(d, END_MARKER) = 1
    /\ \E i, j \in 1..Len(d) :
          OccursAt(d, BEGIN_MARKER, i) /\ OccursAt(d, END_MARKER, j) /\ i < j

\* C1: the document applyCommand writes differs from the original only inside
\* the Auracoil region: with a region in the original (its first BEGIN, and
\* the first END after it), the text before the BEGIN and the text after the
\* END are kept and the region holds the review; with no BEGIN in the
\* original, the original without its trailing whitespace is followed by one
\* new region holding the review, and by nothing else of the original.
C1_ApplyTouchesOnlyRegion ==
    (lastOp = "apply" /\ ret.tag = "str") =>
        /\ \A i, j \in 1..Len(prev) :
              ( /\ IsFirst(prev, BEGIN_MARKER, i)
                /\ OccursAt(prev, END_MARKER, j) /\ j > i
                /\ \A k \in (i + 1)..(j - 1) : ~OccursAt(prev, END_MARKER, k) )
              => IsSplice(doc, prev, i, j, arg)
        /\ ~Occurs(prev, BEGIN_MARKER) =>
              \E t \in {TrimEnd(prev)} :
                  /\ IsTrimEndOf(t, prev)
                  /\ IsSplice(doc,
                              t \o <<"n", "n">> \o BEGIN_MARKER \o END_MARKER \o <<"n">>,
                              Len(t) + 3, Len(t) + 3 + Len(BEGIN_MARKER), arg)

\* C2: for a document with one BEGIN followed by one END, replaceRegion
\* returns the text up to and including BEGIN, a newline, the trimmed new
\* content, a newline and the text from END to the end.
C2_ReplaceKeepsOutside ==
    (lastOp = "replace" /\ OneRegion(prev)) =>
        /\ ret.tag = "str"
        /\ \E i, j \in 1..Len(prev) :
              /\ OccursAt(prev, BEGIN_MARKER, i)
              /\ OccursAt(prev, END_MARKER, j)
              /\ IsSplice(ret.val, prev, i, j, arg)

C2_Witness ==
    /\ lastOp = "replace"
    /\ OneRegion(prev)
    /\ ret.tag = "str"
    /\ arg # Trim(arg)
    /\ ~OccursAt(prev, BEGIN_MARKER, 1)
    /\ ret.val # prev

\* C7: replaceRegion on a document without the BEGIN marker or without the
\* END marker throws, and the document stays as it was.
C7_ReplaceThrowsWithoutMarkers ==
    (lastOp = "replace" /\ (~Occurs(prev, BEGIN_MARKER) \/ ~Occurs(prev, END_MARKER))) =>
        (ret = Threw /\ doc = prev)

C7_Witness ==
    /\ lastOp = "replace"
    /\ Occurs(prev, BEGIN_MARKER)
    /\ ~Occurs(prev, END_MARKER)
    /\ ret = Threw
    /\ doc = prev

\* C8 as stated: for any document containing both markers,
\* replaceRegion(doc, extractRegion(doc)) is doc with the body between a BEGIN
\* and a later END set, trimmed, between single newlines.
C8_RoundTripAnyOrder ==
    (lastOp = "roundtrip" /\ Occurs(prev, BEGIN_MARKER) /\ Occurs(prev, END_MARKER)) =>
        /\ ret.tag = "str"
        /\ \E i, j \in 1..Len(prev) :
              /\ OccursAt(prev, BEGIN_MARKER, i)
              /\ OccursAt(prev, END_MARKER, j)
              /\ i < j
              /\ IsSplice(ret.val, prev, i, j,
                          SubSeq(prev, i + Len(BEGIN_MARKER), j - 1))

\* C8 (amended): for any document whose first BEGIN marker comes before its
\* first END marker, replaceRegion(doc, extractRegion(doc)) is doc with the
\* body between these two markers set, trimmed, between single newlines; a
\* document whose body already has that form is reproduced exactly.
C8_RoundTripOrdered ==
    \A i, j \in 1..Len(prev) :
        ( /\ lastOp = "roundtrip"
          /\ IsFirst(prev, BEGIN_MARKER, i)
          /\ IsFirst(prev, END_MARKER, j)
          /\ i < j )
        => LET body == SubSeq(prev, i + Len(BEGIN_MARKER), j - 1)
           IN  /\ ret.tag = "str"
               /\ IsSplice(ret.val, prev, i, j, body)
               /\ (\E t \in Contents \cup {<<"x", "x">>} :
                      IsTrimOf(t, t) /\ body = <<"n">> \o t \o <<"n">>)
                  => ret.val = prev

C8_Witness ==
    /\ lastOp = "roundtrip"
    /\ \E i, j \in 1..Len(prev) :
          /\ IsFirst(prev, BEGIN_MARKER, i)
          /\ IsFirst(prev, END_MARKER, j)
          /\ i + Len(BEGIN_MARKER) < j
    /\ ret.tag = "str"
    /\ ret.val # prev

\* No marker at all, or one BEGIN followed by one END.
NoMarkers(d) == ~Occurs(d, BEGIN_MARKER) /\ ~Occurs(d, END_MARKER)
MarkersPaired(d) ==
    /\ Count(d, BEGIN_MARKER) <= 1
    /\ Count(d, END_MARKER) <= 1
    /\ Occurs(d, BEGIN_MARKER) <=> Occurs(d, END_MARKER)

\* C17: a call of ensureRegion or of replaceRegion with any content (and the
\* two in a row, as applyCommand does) on a document without markers or with
\* one BEGIN followed by one END leaves a document with at most one BEGIN, at
\* most one END, and both or none of them; so every sequence of such calls
\* does.
C17_MarkersStayPaired ==
    (lastOp \in {"ensure", "replace", "apply"} /\ (NoMarkers(prev) \/ OneRegion(prev)))
        => MarkersPaired(doc)

\* C18: ensureRegion returns a document that holds BEGIN as it is, whether or
\* not END is there; a second call in a row returns what the first returned,
\* and when the first was made on a document without BEGIN the document after
\* the second holds exactly one BEGIN.
C18_EnsureIdempotent ==
    /\ []((lastOp = "ensure" /\ Occurs(prev, BEGIN_MARKER)) => (doc = prev /\ ret = Str(prev)))
    /\ [][(lastOp = "ensure" /\ lastOp' = "ensure")
             => /\ doc' = doc
                /\ ret' = ret
                /\ ~Occurs(prev, BEGIN_MARKER) => Count(doc', BEGIN_MARKER) = 1]_vars

\* The second of two calls in a row, the first of which appended the region
\* to a document that held END but not BEGIN.
C18_Witness ==
    /\ lastOp = "ensure"
    /\ prev = doc
    /\ Occurs(doc, DEFAULT_REGION)
    /\ Count(doc, END_MARKER) = 2

\* The text strictly between the first BEGIN and the first END of d (empty
\* when no text lies between them in that order).
BetweenFirstMarkers(d) ==
    LET i == CHOOSE k \in 1..Len(d) : IsFirst(d, BEGIN_MARKER, k)
        j == CHOOSE k \in 1..Len(d) : IsFirst(d, END_MARKER, k)
    IN  IF i + Len(BEGIN_MARKER) <= j THEN SubSeq(d, i + Len(BEGIN_MARKER), j - 1) ELSE <<>>

\* C19 as stated: extractRegion returns null exactly when BEGIN or END is
\* absent, and otherwise the trimmed text strictly between the first BEGIN
\* and the first END.
C19_ExtractAnyOrder ==
    lastOp = "extract" =>
        /\ ret = Null <=> (~Occurs(prev, BEGIN_MARKER) \/ ~Occurs(prev, END_MARKER))
        /\ ret # Null => (ret.tag = "str" /\ IsTrimOf(ret.val, BetweenFirstMarkers(prev)))

\* C19 (amended): extractRegion returns null exactly when BEGIN or END is
\* absent; when the first BEGIN comes before the first END it returns the
\* trimmed text strictly between the two.
C19_ExtractOrdered ==
    lastOp = "extract" =>
        /\ ret = Null <=> (~Occurs(prev, BEGIN_MARKER) \/ ~Occurs(prev, END_MARKER))
        /\ \A i, j \in 1..Len(prev) :
              (IsFirst(prev, BEGIN_MARKER, i) /\ IsFirst(prev, END_MARKER, j) /\ i < j)
                  => /\ ret.tag = "str"
                     /\ IsTrimOf(ret.val, SubSeq(prev, i + Len(BEGIN_MARKER), j - 1))

\* A region with text around it and whitespace around its body was read.
C19_Witness ==
    /\ lastOp = "extract"
    /\ ret.tag = "str"
    /\ ret.val # <<>>
    /\ ~OccursAt(prev, BEGIN_MARKER, 1)
    /\ \E i, j \in 1..Len(prev) :
          /\ IsFirst(prev, BEGIN_MARKER, i)
          /\ IsFirst(prev, END_MARKER, j)
          /\ i < j
          /\ ret.val # SubSeq(prev, i + Len(BEGIN_MARKER), j - 1)

\* C27: the document ensureRegion returns holds the BEGIN and the END marker,
\* and the replaceRegion that applyCommand makes on it does not throw.
C27_EnsureGivesRegion ==
    /\ lastOp = "ensure" => (Occurs(doc, BEGIN_MARKER) /\ Occurs(doc, END_MARKER))
    /\ lastOp = "apply" => ret # Threw

(***************************************************************************)
(* Claims about the context builder.                                       *)
(***************************************************************************)
RECURSIVE SumSizes(_)
SumSizes(list) == IF list = <<>> THEN 0 ELSE FileSize(Head(list)) + SumSizes(Tail(list))

\* C3: at every point of buildAnalysisBundle, for every configuration, the
\* sizes of the accepted files sum to at most maxTotalSize, the five buckets
\* hold at most maxFiles files and totalTokenEstimate is at most maxTokens.
C3_BundleWithinLimits ==
    bpc # "idle" =>
        /\ SumSizes(getBundleFiles(bundle)) <= cfg.maxTotalSize
        /\ Len(bundle.manifests) + Len(bundle.entrypoints) + Len(bundle.configs)
              + Len(bundle.docs) + Len(bundle.samples) <= cfg.maxFiles
        /\ bundle.totalTokenEstimate <= cfg.maxTokens

\* The size limit is reached exactly, and a readable file was turned away.
C3_Witness ==
    /\ bpc = "done"
    /\ cfg.maxTotalSize < DefaultMaxTotalSize
    /\ SumSizes(getBundleFiles(bundle)) = cfg.maxTotalSize
    /\ Len(getBundleFiles(bundle)) >= 2
    /\ ~attempt.ok
    /\ attempt.path \in repo \ unreadable

\* C9: in the bundle, every path is in at most one of the five buckets and at
\* most once in its bucket.
C9_PathInOneBucket ==
    LET all == bundle.manifests \o bundle.entrypoints \o bundle.configs
                   \o bundle.docs \o bundle.samples
    IN  \A i, j \in 1..Len(all) : all[i] = all[j] => i = j

(***************************************************************************)
(* Claims about the commands.                                              *)
(***************************************************************************)
\* A file of the list has an issue in the scan result.
Flagged(f, scan) == \E j \in 1..Len(scan.issues) : scan.issues[j].file = f

\* C4: in reviewCommand the step that follows the scan, whatever the scan
\* found, is the call of the External Reviewer, and the file list of that
\* call holds no file the scan reported an issue for.
C4_ReviewExcludesFlagged ==
    [][(cmd = "review" /\ cpc = "scanned") =>
           /\ oracleCalled'
           /\ \A i \in 1..Len(sent') : ~Flagged(sent'[i], scanResult)]_vars

\* A review was sent after a scan that flagged a file for its name and a
\* file for its content, with the files left.
C4_Witness ==
    /\ cmd = "review"
    /\ oracleCalled
    /\ ~scanResult.safe
    /\ \E j \in 1..Len(scanResult.issues) : scanResult.issues[j].type = "sensitive_file"
    /\ \E j \in 1..Len(scanResult.issues) : scanResult.issues[j].line > 0
    /\ sent # <<>>
    /\ Len(sent) < Len(getBundleFiles(cmdBundle))

\* C5: in generate and in update, the file list handed to executeOracle holds
\* no path the scan reported an issue for.
C5_GenerateUpdateExcludeFlagged ==
    (cmd \in {"generate", "update"} /\ oracleCalled) =>
        \A i \in 1..Len(sent) : ~Flagged(sent[i], scanResult)

\* C6: a run of reviewCommand writes state.json at most once, and only after
\* the External Reviewer returned success; a run that ends at the pre-flight
\* check, at the missing AGENTS.md or at the failed call leaves the file as
\* it was.
C6_ReviewStateWrittenOnceAfterSuccess ==
    cmd = "review" =>
        /\ stateWrites <= 1
        /\ stateWrites = 1 => (oracleCalled /\ oracleOk)
        /\ stateWrites = 0 => stateFiles[Cwd] = stateFile0
        /\ cpc = "exit" => (stateWrites = 0 /\ stateFiles[Cwd] = stateFile0)

\* The External Reviewer failed in a repository that has a state file.
C6_Witness ==
    /\ cmd = "review"
    /\ cpc = "exit"
    /\ exitAt = "oracle"
    /\ oracleCalled
    /\ stateFile0 # Missing

(***************************************************************************)
(* Claims about the StateManager.                                          *)
(***************************************************************************)
\* C10: whenever the state file is missing or does not parse, load() returns
\* the default empty state (the three checkpoints null, no findings),
\* whatever calls were made before on any StateManager of the process.
C10_LoadDefaultsWhenMissing ==
    lastLoad.file \in {"missing", "corrupt"} =>
        lastLoad.state = [lastReviewedCommit |-> JsNull, lastReviewedAt |-> JsNull,
                          agentsMdHash |-> JsNull, findings |-> <<>>]

\* The findings a file holds (none for a missing or corrupt file).
PersistedFindings(file) == IF file.kind = "json" THEN file.obj.findings ELSE <<>>

IdCount(findings, id) == Cardinality({i \in 1..Len(findings) : findings[i].id = id})
UniqueIds(findings) == \A i, j \in 1..Len(findings) : findings[i].id = findings[j].id => i = j

\* C11: every id occurs at most once in the findings of every state file and
\* of every state a load() would return; and an addFinding call with an id
\* the file already holds changes no file and starts no write.
C11_FindingIdsUnique ==
    /\ [](\A r \in Repos :
             /\ UniqueIds(PersistedFindings(stateFiles[r]))
             /\ \A p \in Procs :
                   UniqueIds(load(stateFiles[r], emptyFindings[p]).obj.findings))
    /\ [][(/\ callCount' = callCount + 1
           /\ lastCall'.op = "addFinding"
           /\ IdCount(PersistedFindings(stateFiles[lastCall'.repo]), lastCall'.id) > 0)
          => (stateFiles' = stateFiles /\ pending' = pending
                 /\ emptyFindings' = emptyFindings)]_vars

\* addFinding was called with an id its file already held; the file holds it
\* once.
C11_Witness ==
    /\ lastCall.op = "addFinding"
    /\ ~lastCall.writes
    /\ \A p \in Procs : pending[p] = NoCall
    /\ IdCount(PersistedFindings(stateFiles[lastCall.repo]), lastCall.id) = 1

\* C12: every finding of every state file has resolvedAt set if and only if
\* its status is 'resolved'.
C12_ResolvedAtIffResolved ==
    \A r \in Repos :
        LET findings == PersistedFindings(stateFiles[r])
        IN  \A i \in 1..Len(findings) :
                ("resolvedAt" \in DOMAIN findings[i]) <=> (findings[i].status = "resolved")

(***************************************************************************)
(* Claims about getBundleHash.                                             *)
(***************************************************************************)
Occurrences(list, v) == Cardinality({i \in 1..Len(list) : list[i] = v})
SameMultiset(l1, l2) ==
    \A v \in Range(l1) \cup Range(l2) : Occurrences(l1, v) = Occurrences(l2, v)
MapPaths(m) == {m[i][1] : i \in 1..Len(m)}
HashOfPath(m, p) == m[CHOOSE i \in 1..Len(m) : m[i][1] = p][2]

\* C13: two bundles whose contentHashes hold the same hashes, in whatever
\* order they were inserted, have the same bundle hash, and a second call on
\* one bundle returns what the first returned.
C13_BundleHashOrderInvariant ==
    /\ hpc \in {"again", "done"} => hashA2 = hashA
    /\ (hpc = "done" /\ SameMultiset(Values(mapA), Values(mapB))) => hashA = hashB

\* Two different hashes were inserted in the two orders, the first bundle in
\* descending hex order.
C13_Witness ==
    /\ hpc = "done"
    /\ Len(mapA) = 2
    /\ mapA[1][2] # mapA[2][2]
    /\ HexRank(mapA[1][2]) > HexRank(mapA[2][2])
    /\ Values(mapB) = <<mapA[2][2], mapA[1][2]>>
    /\ hashA = hashB

\* C14: two bundles over the same paths, in which a path has a different
\* content hash, have different bundle hashes.
C14_BundleHashContentSensitive ==
    (/\ hpc = "done"
     /\ MapPaths(mapA) = MapPaths(mapB)
     /\ \E p \in MapPaths(mapA) : HashOfPath(mapA, p) # HashOfPath(mapB, p))
        => hashA # hashB

(***************************************************************************)
(* Claims about scanForSecrets.                                            *)
(***************************************************************************)
IssuesFor(scan, file) == SelectSeq(scan.issues, LAMBDA i : i.file = file)

\* C15: a file of the list whose name is dangerous gets exactly one issue,
\* of type sensitive_file at line 0, whatever its text and whether or not it
\* can be read, and the result is not safe.
C15_DangerousFileOneIssue ==
    spc = "done" =>
        \A k \in 1..Len(scanList) :
            isDangerousFile(scanList[k]) =>
                /\ IssuesFor(scanOut, scanList[k]) = <<Issue(scanList[k], 0, "sensitive_file")>>
                /\ ~scanOut.safe

\* A dangerous file whose text holds a secret, and one that cannot be read,
\* were scanned.
C15_Witness ==
    /\ spc = "done"
    /\ \E k \in 1..Len(scanList) :
          /\ isDangerousFile(scanList[k])
          /\ scanList[k] \in DOMAIN scanTexts
          /\ scanTexts[scanList[k]] = SecretText
    /\ \E k \in 1..Len(scanList) :
          /\ isDangerousFile(scanList[k])
          /\ scanList[k] \notin DOMAIN scanTexts

NamedAsExample(file) ==
    \/ Includes(Toks(file), <<".example">>)
    \/ Includes(Toks(file), <<".template">>)
    \/ Includes(Toks(file), <<".sample">>)
    \/ EndsWith(Toks(file), <<".md">>)

\* C16: a file whose name contains .example, .template or .sample, or ends
\* in .md, gets no issue, whatever its text.
C16_ExampleFileNoIssues ==
    spc = "done" =>
        \A k \in 1..Len(scanList) :
            NamedAsExample(scanList[k]) => IssuesFor(scanOut, scanList[k]) = <<>>

(***************************************************************************)
(* Claims about buildReviewPrompt.                                         *)
(***************************************************************************)
InPrompt(text) == \E k \in 1..Len(prompt) : prompt[k] = text

\* C20: the prompt holds each of the first 30 changed files and each of the
\* first 15 commit messages of its input, for every input, an empty list of
\* changed files included.
C20_PromptHoldsEvidence ==
    ppc = "done" =>
        /\ \A k \in 1..Len(promptInput.changedFiles) :
              k <= 30 => InPrompt(promptInput.changedFiles[k])
        /\ \A k \in 1..Len(promptInput.commitMessages) :
              k <= 15 => InPrompt(promptInput.commitMessages[k])

\* C21: a resolveFinding(id) call on a repository whose persisted findings do
\* not hold id changes nothing: no write is started, the state files and
\* every finding stay as they were.
C21_ResolveUnknownIdNoChange ==
    [][(/\ callCount' = callCount + 1
        /\ lastCall'.op = "resolveFinding"
        /\ IdCount(PersistedFindings(stateFiles[lastCall'.repo]), lastCall'.id) = 0)
       => (stateFiles' = stateFiles /\ pending' = pending
              /\ emptyFindings' = emptyFindings)]_vars

StateKeys == {"lastReviewedCommit", "lastReviewedAt", "agentsMdHash", "findings"}

\* The value a state file holds for a key: the default for a key it lacks and
\* for a missing or corrupt file.
PersistedValue(file, k) ==
    IF file.kind = "json" /\ k \in DOMAIN file.obj THEN file.obj[k]
    ELSE IF k = "findings" THEN <<>>
    ELSE "null"

\* C22: the state an update(partial) call goes on to write, which is what a
\* load() on the repository then returns, holds partial's value for every key
\* of partial and, for every other key, the value the state file held when
\* update was called; the findings are kept when partial has none.
C22_UpdateMergesIntoPersisted ==
    [][(callCount' = callCount + 1 /\ lastCall'.op = "update")
          => LET p == lastCall'.proc
                 written == Deref(pending'[p].st, emptyFindings'[p])
             IN  \E partial \in Partials :
                     \A k \in StateKeys :
                         written[k] = IF k \in DOMAIN partial THEN partial[k]
                                      ELSE PersistedValue(stateFiles[lastCall'.repo], k)]_vars

(***************************************************************************)
(* Claims about isDangerousFile.                                           *)
(***************************************************************************)
\* The fragments of a path after its last slash, and their lower case.
BaseNameOf(path) ==
    LET ts == Toks(path)
        slashes == {k \in 1..Len(ts) : ts[k] = "/"}
        last == IF slashes = {} THEN 0 ELSE CHOOSE k \in slashes : \A m \in slashes : m <= k
    IN  SubSeq(ts, last + 1, Len(ts))

LowerFragment(t) ==
    IF t \in {".ENV", ".Env"} THEN ".env"
    ELSE IF t = ".PEM" THEN ".pem"
    ELSE IF t = ".KEY" THEN ".key"
    ELSE IF t \in {"Credentials", "CREDENTIALS"} THEN "credentials"
    ELSE IF t \in {"Secrets", "SECRETS"} THEN "secrets"
    ELSE IF t = "README" THEN "readme"
    ELSE t

DangerousName(path) ==
    LET name == [k \in 1..Len(BaseNameOf(path)) |-> LowerFragment(BaseNameOf(path)[k])]
    IN  \/ name[1] = ".env"
        \/ name[Len(name)] \in {".pem", ".key"}
        \/ \E k \in 1..Len(name) : name[k] \in {"credentials", "secrets"}
        \/ name \in {<<"id_rsa">>, <<"id_ed25519">>, <<".npmrc">>, <<".netrc">>}

OrdinaryNames == {<<"package", ".json">>, <<"index", ".ts">>, <<"README", ".md">>}

\* C23: isDangerousFile is true for every path whose base name, in lower
\* case, starts with .env, ends with .pem or .key, contains credentials or
\* secrets or is a denylist name, .env.example included; it is false for
\* package.json, index.ts and README.md in any directory; and two paths with
\* the same base name get the same answer.
C23_DangerousByBaseName ==
    /\ dpc \in {"first", "done"} =>
          /\ DangerousName(dfPathA) => dfResultA
          /\ dfPathA = ".env.example" => dfResultA
          /\ BaseNameOf(dfPathA) \in OrdinaryNames => ~dfResultA
    /\ (dpc = "done" /\ BaseNameOf(dfPathA) = BaseNameOf(dfPathB)) => dfResultA = dfResultB

\* index.ts in a directory named secrets was found as harmless as index.ts
\* itself.
C23_Witness ==
    /\ dpc = "done"
    /\ dfPathA = "secrets/index.ts" /\ ~dfResultA
    /\ dfPathB = "index.ts" /\ ~dfResultB

(***************************************************************************)
(* Claims about the order and the rejections of buildAnalysisBundle.       *)
(***************************************************************************)
CategoryRank(category) ==
    CASE category = "manifests" -> 1
      [] category = "docs" -> 2
      [] category = "configs" -> 3
      [] category = "entrypoints" -> 4
      [] category = "samples" -> 5
      [] OTHER -> 0

NamedFirstAmongDocs(path) ==
    [k \in 1..Len(Toks(path)) |-> LowerFragment(Toks(path)[k])]
        \in {<<"readme", ".md">>, <<"architecture", ".md">>, <<"contributing", ".md">>,
             <<"agents", ".md">>}

\* call a is made no later than call b in the order of the claim.
InPriorityOrder(a, b) ==
    /\ CategoryRank(a.category) <= CategoryRank(b.category)
    /\ (a.category = "docs" /\ b.category = "docs" /\ NamedFirstAmongDocs(b.path))
          => NamedFirstAmongDocs(a.path)

\* C24: before the first addFile call every manifest, doc and entry point of
\* the index is waiting to be tried; the call just made and the calls still
\* to be made are in the order manifests, docs (README, ARCHITECTURE,
\* CONTRIBUTING, AGENTS first), configs, entry points, samples; and the
\* samples are chosen only when no earlier candidate is left untried.
C24_StrictPriorityOrder ==
    /\ (bpc = "priority" /\ attempt = NoAttempt) =>
          LET index == indexRepository(repo)
              waiting(path, category) ==
                  \E i \in 1..Len(plan) : plan[i].path = path /\ plan[i].category = category
          IN  /\ \A i \in 1..Len(index.manifests) : waiting(index.manifests[i], "manifests")
              /\ \A i \in 1..Len(index.docs) : waiting(index.docs[i], "docs")
              /\ \A i \in 1..Len(index.entrypoints) :
                    waiting(index.entrypoints[i], "entrypoints")
    /\ \A i, j \in 1..Len(plan) : i < j => InPriorityOrder(plan[i], plan[j])
    /\ attempt # NoAttempt => \A i \in 1..Len(plan) : InPriorityOrder(attempt, plan[i])
    /\ bpc = "priority" =>
          /\ attempt.category # "samples"
          /\ \A i \in 1..Len(plan) : plan[i].category # "samples"
          /\ bundle.samples = <<>>

\* A sample was accepted after a manifest, a doc and an entry point were, and
\* after a doc had been turned down.
C24_Witness ==
    /\ attempt.category = "samples"
    /\ attempt.ok
    /\ bundle.manifests # <<>>
    /\ bundle.entrypoints # <<>>
    /\ bundle.docs # <<>>
    /\ \E d \in Range(indexRepository(repo).docs) : d \notin Range(bundle.docs)

\* The file can be read and adding it passes none of the three limits.
FitsBudget(path) ==
    /\ path \in repo
    /\ path \notin unreadable
    /\ currentSize + FileSize(path) <= cfg.maxTotalSize
    /\ currentTokens + ((FileLength(path) + 3) \div 4) <= cfg.maxTokens
    /\ Len(bundle.manifests) + Len(bundle.docs) + Len(bundle.configs)
           + Len(bundle.entrypoints) + Len(bundle.samples) < cfg.maxFiles

\* C25: an addFile call that rejects its candidate leaves the buckets, the
\* content hashes and the running totals as they were, and the loop goes on
\* with the candidates after it; a candidate that can be read and fits the
\* budget left is accepted into its bucket, whatever was rejected before it.
C25_RejectionChangesNothing ==
    [][(plan # <<>> /\ plan' = Tail(plan))
          => /\ bpc' = bpc
             /\ attempt'.path = Head(plan).path
             /\ attempt'.ok <=> FitsBudget(Head(plan).path)
             /\ ~attempt'.ok =>
                   /\ bundle' = bundle
                   /\ currentSize' = currentSize
                   /\ currentTokens' = currentTokens
             /\ attempt'.ok =>
                   bundle'[Head(plan).category] = Append(bundle[Head(plan).category],
                                                         Head(plan).path)]_vars

\* A doc was accepted after README.md, a doc tried before it, was rejected.
C25_Witness ==
    /\ attempt.category = "docs"
    /\ attempt.ok
    /\ attempt.path = "docs/secrets.md"
    /\ "README.md" \in repo
    /\ "README.md" \notin Range(bundle.docs)

(***************************************************************************)
(* Claims about the steps of reviewCommand.                                *)
(***************************************************************************)
\* C26: in a review the External Reviewer is called only when AGENTS.md was
\* read; the artifact is written only after the External Reviewer returned
\* success, and holds its output as it came; the state is updated only after
\* the artifact was written; and a run that ended with exit code 1 wrote
\* neither, and did not call the External Reviewer when it ended before.
C26_ReviewStepsInOrder ==
    cmd = "review" =>
        /\ oracleCalled => hostDoc
        /\ artifactWrites >= 1 => (oracleCalled /\ oracleOk /\ artifact = oracleOutput)
        /\ artifactWrites = 0 => artifact = NoOutput
        /\ stateWrites >= 1 => artifactWrites >= 1
        /\ cpc = "exit" =>
              /\ artifactWrites = 0
              /\ stateWrites = 0
              /\ exitAt \in {"preflight", "read"} => ~oracleCalled

\* A review ran to its end with an output that is not JSON.
C26_Witness ==
    /\ cmd = "review"
    /\ cpc = "done"
    /\ oracleOutput = "not json"
    /\ artifact = "not json"
    /\ artifactWrites = 1
    /\ stateWrites = 1

\* The state a pending write of process p holds, as it is serialized.
WrittenBy(p) ==
    IF pending[p].st.ref = "shared"
    THEN [pending[p].st.obj EXCEPT !.findings = emptyFindings[p]]
    ELSE pending[p].st.obj

\* C28: a call may load while the write of another call is still to come,
\* and every write replaces the whole state file by the state its own call
\* computed, whatever another call wrote since that call loaded.
C28_LastWriterWins ==
    [][\A p \in Procs :
          (pending[p] # NoCall /\ pending'[p] = NoCall)
              => /\ stateFiles'[pending[p].repo] = [kind |-> "json", obj |-> WrittenBy(p)]
                 /\ \A r \in Repos \ {pending[p].repo} : stateFiles'[r] = stateFiles[r]]_vars

\* Two processes each added a finding of its own to repoA, both loading
\* before either wrote: the file holds one finding, that of the last writer.
C28_Witness ==
    /\ \A p \in Procs : pending[p] = NoCall
    /\ lastCall.op = "addFinding" /\ lastCall.writes
    /\ Len(emptyFindings["p1"]) = 1
    /\ Len(emptyFindings["p2"]) = 1
    /\ emptyFindings["p1"][1].id # emptyFindings["p2"][1].id
    /\ stateFiles["repoB"].kind # "json"
    /\ stateFiles["repoA"].kind = "json"
    /\ Len(stateFiles["repoA"].obj.findings) = 1

\* C29: an addFinding call whose id the repository's state file does not hold
\* starts a write, and when that write is made the file holds exactly one
\* finding with that id, of status 'open'.
C29_AddFindingPersists ==
    [][/\ (/\ callCount' = callCount + 1
           /\ lastCall'.op = "addFinding"
           /\ IdCount(PersistedFindings(stateFiles[lastCall'.repo]), lastCall'.id) = 0)
          => (lastCall'.writes /\ pending'[lastCall'.proc] # NoCall)
       /\ \A p \in Procs :
            (pending[p] # NoCall /\ pending[p].op = "addFinding" /\ pending'[p] = NoCall)
               => LET findings == PersistedFindings(stateFiles'[pending[p].repo])
                      id == findings[Len(findings)].id
                  IN  /\ Len(findings) >= 1
                      /\ IdCount(findings, id) = 1
                      /\ findings[Len(findings)].status = "open"]_vars

\* C30: once step 4 of the review has run, with a checkpoint and no failure of
\* git changedFiles and commitMessages are those between the checkpoint and
\* HEAD; with no checkpoint and no failure changedFiles is empty and
\* commitMessages are the 20 most recent; when git failed both are empty; and
\* in every case the review has gone on: step 4 takes no exit.
C30_EvidenceByCheckpoint ==
    (cmd = "review" /\ evidence # NoEvidence) =>
        /\ (evidence.threw = "none" /\ evidence.checkpoint)
              => (evidence.changedFiles = "range" /\ evidence.commitMessages = "range")
        /\ (evidence.threw = "none" /\ ~evidence.checkpoint)
              => (evidence.changedFiles = "empty" /\ evidence.commitMessages = "last20")
        /\ evidence.threw # "none"
              => (evidence.changedFiles = "empty" /\ evidence.commitMessages = "empty")
        /\ cpc # "read"
        /\ cpc = "exit" => exitAt \notin {"preflight", "read"}

(***************************************************************************)
(* The specifications.  Each one runs one component; the variables of the  *)
(* other components rest at their idle values.                             *)
(***************************************************************************)
RegionIdle ==
    /\ doc = <<>>
    /\ fileExists = FALSE
    /\ prev = <<>>
    /\ lastOp = "idle"
    /\ arg = <<>>
    /\ ret = Null

BundleIdle ==
    /\ repo = {}
    /\ unreadable = {}
    /\ cfg = DEFAULT_CONFIG
    /\ bundle = EmptyBundle
    /\ currentSize = 0
    /\ currentTokens = 0
    /\ bpc = "idle"
    /\ plan = <<>>
    /\ attempt = NoAttempt

CmdIdle ==
    /\ cmd = "none"
    /\ cpc = "idle"
    /\ tree = {}
    /\ texts = <<>>
    /\ hostDoc = FALSE
    /\ cmdBundle = EmptyBundle
    /\ scanResult = NoScan
    /\ evidence = NoEvidence
    /\ oracleCalled = FALSE
    /\ sent = <<>>
    /\ oracleOk = FALSE
    /\ exitAt = "none"
    /\ stateFile0 = Missing
    /\ stateWrites = 0
    /\ artifactWrites = 0
    /\ oracleOutput = NoOutput
    /\ artifact = NoOutput

StateIdle ==
    /\ stateFiles = [r \in Repos |-> Missing]
    /\ emptyFindings = [p \in Procs |-> <<>>]
    /\ pending = [p \in Procs |-> NoCall]
    /\ lastLoad = NoLoad
    /\ lastCall = NoCallYet
    /\ callCount = 0

HashIdle ==
    /\ hexOrder = <<>>
    /\ mapA = <<>>
    /\ mapB = <<>>
    /\ hpc = "idle"
    /\ hashA = NoHash
    /\ hashA2 = NoHash
    /\ hashB = NoHash

ScanIdle ==
    /\ scanList = <<>>
    /\ scanTexts = <<>>
    /\ spc = "idle"
    /\ scanOut = NoScan

PromptIdle ==
    /\ promptInput = NoInput
    /\ ppc = "idle"
    /\ prompt = <<>>

DangerIdle ==
    /\ dfPathA = ""
    /\ dfPathB = ""
    /\ dpc = "idle"
    /\ dfResultA = FALSE
    /\ dfResultB = FALSE

InitRegion == RegionInit /\ BundleIdle /\ StateIdle /\ CmdIdle /\ HashIdle /\ ScanIdle /\ PromptIdle /\ DangerIdle

RegionNext ==
    \/ ExtractRegionCall
    \/ ReplaceRegionCall
    \/ EnsureRegionCall
    \/ RoundTripCall
    \/ ApplyCommand

SpecRegion == InitRegion /\ [][RegionNext]_vars

InitBundle == BundleInit /\ RegionIdle /\ StateIdle /\ CmdIdle /\ HashIdle /\ ScanIdle /\ PromptIdle /\ DangerIdle

SpecBundle == InitBundle /\ [][BundleNext]_vars

InitState == StateInit /\ RegionIdle /\ BundleIdle /\ CmdIdle /\ HashIdle /\ ScanIdle /\ PromptIdle /\ DangerIdle

SpecState == InitState /\ [][StateNext]_vars

InitCmd == CmdInit /\ RegionIdle /\ BundleIdle /\ HashIdle /\ ScanIdle /\ PromptIdle /\ DangerIdle

SpecCmd == InitCmd /\ [][CmdNext]_vars

InitHash == HashInit /\ RegionIdle /\ BundleIdle /\ StateIdle /\ CmdIdle /\ ScanIdle /\ PromptIdle /\ DangerIdle

SpecHash == InitHash /\ [][HashNext]_vars

InitScan == ScanInit /\ RegionIdle /\ BundleIdle /\ StateIdle /\ CmdIdle /\ HashIdle /\ PromptIdle /\ DangerIdle

SpecScan == InitScan /\ [][ScanNext]_vars

InitPrompt == PromptInit /\ RegionIdle /\ BundleIdle /\ StateIdle /\ CmdIdle /\ HashIdle /\ ScanIdle /\ DangerIdle

SpecPrompt == InitPrompt /\ [][PromptNext]_vars

InitDanger == DangerInit /\ RegionIdle /\ BundleIdle /\ StateIdle /\ CmdIdle /\ HashIdle /\ PromptIdle /\ ScanIdle

SpecDanger == InitDanger /\ [][DangerNext]_vars

====
